---------------------------- MODULE Spec2Model ----------------------------
(***************************************************************************)
(* Model of the xk6-milvus extension core (package pkg/milvus):           *)
(*   - calculateRecall, the recall@K evaluator      (pkg/milvus/search.go) *)
(*   - Client.Insert, the column encoder and insert coordinator           *)
(*     (the client file of the package, src/unnamed/part_002, cited below  *)
(*     as client.go)                                                       *)
(* One virtual user runs a strictly sequential loop: the script picks the  *)
(* arguments of a call, the Go handler runs to completion, the script      *)
(* observes the outcome.  The store behind the client is external: its     *)
(* replies are drawn nondeterministically.                                 *)
(*                                                                         *)
(* float64 results of calculateRecall are modelled bit for bit: a          *)
(* significand of 53 bits and an exponent, each operation rounded.         *)
(***************************************************************************)
EXTENDS Integers, Sequences, FiniteSets, Bags, TLC

VARIABLES
    pc,        \* position of the virtual user: "idle", "called", "running",
               \* "returned"
    call,      \* the pending/last call: [op |-> ..., ...arguments...]
    ret,       \* the outcome of the last call
    requests,  \* store requests issued by the last call, in order
    emitted,   \* metric samples pushed by the last call, in order
    vu,        \* the VU's k6 state: non-nil state, context done, tags
    frame      \* the activation of the running handler

vars == <<pc, call, ret, requests, emitted, vu, frame>>

-----------------------------------------------------------------------------
(* Bounds of the model *)

MaxHits == 4        \* longest flat hit sequence given to calculateRecall
MaxQueries == 2     \* longest ground-truth list of lists
MaxK == 2           \* largest topK
MaxRows == 2        \* longest value sequence of a field of a batch record

-----------------------------------------------------------------------------
(* Generic helpers *)

SeqsUpTo(S, n) == UNION {[1..m -> S] : m \in 0..n}

Range(s) == {s[i] : i \in 1..Len(s)}

(* float64, as calculateRecall uses it (search.go:146, 176, 177, 187): a
   non-negative binary64 value is <<m, e>> with m its significand, a
   sequence of SignificandBits bits from the most significant (which is 1),
   and value(m) * 2^e its value; zero is <<<<>>, 0>>.  Every operation rounds
   its exact result to the nearest value, ties to even.                     *)
SignificandBits == 53

F64Zero == <<<<>>, 0>>

RECURSIVE BitsOf(_)
BitsOf(n) == IF n = 0 THEN <<>> ELSE Append(BitsOf(n \div 2), n % 2)

(* bits + 1 *)
Incr(bits) ==
    LET zeros == {i \in 1..Len(bits) : bits[i] = 0} IN
    IF zeros = {} THEN <<1>> \o [i \in 1..Len(bits) |-> 0]
    ELSE LET k == CHOOSE i \in zeros : \A j \in zeros : j <= i IN
         [i \in 1..Len(bits) |-> IF i < k THEN bits[i] ELSE IF i = k THEN 1 ELSE 0]

(* the significand kept, or the next one up; a carry out of the top bit
   moves the exponent *)
Rounded(bits, e, up) ==
    IF ~up THEN <<bits, e>>
    ELSE LET b == Incr(bits) IN
         IF Len(b) > SignificandBits THEN <<SubSeq(b, 1, SignificandBits), e + 1>>
         ELSE <<b, e>>

(* one step of the long division of value(bits) by n: bit i of the dividend
   (a 0 past its end) is brought down; d holds the quotient bits from the
   leading 1, the remainder, and the number of bits taken past the end *)
DivStep(bits, n, d, i) ==
    LET bit == IF i <= Len(bits) THEN bits[i] ELSE 0
        r2  == 2 * d.r + bit
        qb  == IF r2 >= n THEN 1 ELSE 0
    IN  [q   |-> IF d.q = <<>> /\ qb = 0 THEN d.q ELSE Append(d.q, qb),
         r   |-> r2 - qb * n,
         ext |-> IF i <= Len(bits) THEN d.ext ELSE d.ext + 1]

(* the steps up to the one that gives the quotient its leading 1 *)
RECURSIVE DivLead(_, _, _, _)
DivLead(bits, n, d, i) ==
    IF d.q # <<>> THEN [d |-> d, next |-> i]
    ELSE DivLead(bits, n, DivStep(bits, n, d, i), i + 1)

(* steps from..to of the division, in order *)
RECURSIVE DivSteps(_, _, _, _, _)
DivSteps(bits, n, d, from, to) ==
    IF from > to THEN d
    ELSE IF from = to THEN DivStep(bits, n, d, from)
    ELSE LET mid   == (from + to) \div 2
             first == DivSteps(bits, n, d, from, mid)
         IN  IF first.r >= 0 THEN DivSteps(bits, n, first, mid + 1, to) ELSE first

(* long division of value(bits) by n, for bits of at most SignificandBits
   bits: the first SignificandBits bits of the quotient from its leading 1,
   the remainder, and the number of bits taken past the end of bits *)
LongDiv(bits, n) ==
    LET lead == DivLead(bits, n, [q |-> <<>>, r |-> 0, ext |-> 0], 1)
    IN  DivSteps(bits, n, lead.d, lead.next, lead.next + SignificandBits - 2)

(* value(bits) * 2^e / n rounded, for value(bits) > 0 and n > 0 *)
F64Quot(bits, e, n) ==
    LET d  == LongDiv(bits, n)
        up == 2 * d.r > n \/ (2 * d.r = n /\ d.q[SignificandBits] = 1)
    IN  Rounded(d.q, e - d.ext, up)

(* float64(a) / float64(b) for integers a >= 0, b > 0, search.go:176 *)
F64Div(a, b) == IF a = 0 THEN F64Zero ELSE F64Quot(BitsOf(a), 0, b)

(* x / float64(n) for an integer n > 0, search.go:187 *)
F64DivInt(x, n) == IF x[1] = <<>> THEN F64Zero ELSE F64Quot(x[1], x[2], n)

Zeros(n) == [i \in 1..n |-> 0]

(* the carry into position i of the binary addition of two bit sequences of
   the same length: the nearest position to the right where the two bits
   are equal either makes a carry (1 and 1) or stops one (0 and 0) *)
CarryInto(A, B, i) ==
    LET settled == {j \in (i + 1)..Len(A) : A[j] = B[j]} IN
    IF settled = {} THEN 0
    ELSE A[CHOOSE j \in settled : \A k \in settled : j <= k]

(* binary addition of two bit sequences of the same length *)
AddBits(A, B) ==
    LET sum == [i \in 1..Len(A) |-> (A[i] + B[i] + CarryInto(A, B, i)) % 2] IN
    IF CarryInto(A, B, 0) = 1 THEN <<1>> \o sum ELSE sum

(* x + y, search.go:177 *)
F64Add(x, y) ==
    IF x[1] = <<>> THEN y
    ELSE IF y[1] = <<>> THEN x
    ELSE LET hi == IF x[2] >= y[2] THEN x ELSE y
             lo == IF x[2] >= y[2] THEN y ELSE x
             d  == hi[2] - lo[2]
         IN  IF d > SignificandBits + 1 THEN hi
             ELSE LET sum  == AddBits(hi[1] \o Zeros(d), Zeros(d) \o lo[1])
                      kept == SubSeq(sum, 1, SignificandBits)
                      rest == SubSeq(sum, SignificandBits + 1, Len(sum))
                      up   == /\ Len(rest) > 0
                              /\ rest[1] = 1
                              /\ \/ kept[SignificandBits] = 1
                                 \/ \E i \in 2..Len(rest) : rest[i] = 1
                  IN  IF up THEN Rounded(kept, lo[2] + Len(rest), TRUE)
                      ELSE <<kept, lo[2] + Len(rest)>>

-----------------------------------------------------------------------------
(* SearchResult, types.go *)

SearchResult(id) == [ID |-> id, Score |-> 0, Fields |-> <<>>]

-----------------------------------------------------------------------------
(* calculateRecall, search.go:141-188 *)

(* lines 157-160: the set of ground-truth ids of one query *)
truthSetOf(truth) == Range(truth)

(* Go's int on the 64-bit targets the extension is built for.  A value is
   written <<q, r>> and stands for q * 2^62 + r with r small against 2^62:
   the values the evaluator can form from a topK of that shape and from the
   lengths of its slices.  Sums wrap at 2^63 as the machine's do.          *)
Int64Of(n) == <<0, n>>

wrap64(x) ==
    IF x[1] > 2 \/ (x[1] = 2 /\ x[2] >= 0) THEN <<x[1] - 4, x[2]>>
    ELSE IF x[1] < -2 \/ (x[1] = -2 /\ x[2] < 0) THEN <<x[1] + 4, x[2]>>
    ELSE x

add64(x, y) == wrap64(<<x[1] + y[1], x[2] + y[2]>>)

sub64(x, y) == wrap64(<<x[1] - y[1], x[2] - y[2]>>)

less64(x, y) == x[1] < y[1] \/ (x[1] = y[1] /\ x[2] < y[2])

(* lines 164-167: number of results examined for the current query *)
maxResultsOf(results, resultIdx, topK) ==
    IF less64(Int64Of(Len(results)), add64(resultIdx, topK))
    THEN sub64(Int64Of(Len(results)), resultIdx)
    ELSE topK

(* lines 169-173: the scan of one query's results.  i counts from 0 while
   i < maxResults and resultIdx+i < len(results); each round reads
   results[resultIdx+i], which panics when the index is negative, and counts
   the position when its id is in the truth set.  seen carries the flat
   (0-based) positions read and counted so far.                            *)
RECURSIVE scan(_, _, _, _, _, _)
scan(results, truthSet, resultIdx, maxResults, i, seen) ==
    LET at == add64(resultIdx, Int64Of(i)) IN
    IF ~(less64(Int64Of(i), maxResults) /\ less64(at, Int64Of(Len(results))))
    THEN [panicked |-> FALSE, read |-> seen.read, positions |-> seen.positions]
    ELSE IF less64(at, Int64Of(0))
    THEN [panicked |-> TRUE, read |-> seen.read, positions |-> seen.positions]
    ELSE scan(results, truthSet, resultIdx, maxResults, i + 1,
              [read      |-> seen.read \cup {at[2]},
               positions |-> IF results[at[2] + 1].ID \in truthSet
                             THEN seen.positions \cup {at[2]}
                             ELSE seen.positions])

(* lines 162-173: the positions read and counted for the current query *)
retrievedAt(results, truthSet, resultIdx, topK) ==
    scan(results, truthSet, resultIdx, maxResultsOf(results, resultIdx, topK),
         0, [read |-> {}, positions |-> {}])

(* line 180 *)
advance(resultIdx, topK) == add64(resultIdx, topK)

(* line 176: per-query recall; the denominator is the length of the list *)
queryRecallOf(retrieved, truth) == F64Div(retrieved, Len(truth))

(* lines 151-181: the loop.  acc carries resultIdx, totalRecall, validQueries
   and, as a history of the run, perQuery: one entry per loop iteration with
   the flat positions read and counted for that query and its recall (a
   skipped query has valid = FALSE).  A panic of the scan ends the run.     *)
RECURSIVE recallLoop(_, _, _, _, _, _)
recallLoop(results, groundTruth, topK, numQueries, queryIdx, acc) ==
    IF ~(queryIdx < numQueries /\ queryIdx < Len(groundTruth))
    THEN acc
    ELSE LET truth == groundTruth[queryIdx + 1] IN
         IF Len(truth) = 0
         THEN \* lines 152-154: continue, resultIdx is not advanced
              recallLoop(results, groundTruth, topK, numQueries, queryIdx + 1,
                  [acc EXCEPT !.perQuery =
                      Append(@, [valid |-> FALSE, read |-> {}, positions |-> {},
                                 recall |-> F64Zero])])
         ELSE LET hit == retrievedAt(results, truthSetOf(truth), acc.resultIdx, topK)
                  queryRecall == queryRecallOf(Cardinality(hit.positions), truth)
              IN  IF hit.panicked
                  THEN [acc EXCEPT !.panicked = TRUE]
                  ELSE recallLoop(results, groundTruth, topK, numQueries, queryIdx + 1,
                      [resultIdx    |-> advance(acc.resultIdx, topK),
                       totalRecall  |-> F64Add(acc.totalRecall, queryRecall),
                       validQueries |-> acc.validQueries + 1,
                       panicked     |-> FALSE,
                       perQuery     |-> Append(acc.perQuery,
                           [valid |-> TRUE, read |-> hit.read,
                            positions |-> hit.positions, recall |-> queryRecall])])

(* lines 146-181 for a topK held as a 64-bit int *)
recallRun(results, groundTruth, topK, numQueries) ==
    recallLoop(results, groundTruth, topK, numQueries, 0,
               [resultIdx |-> Int64Of(0), totalRecall |-> F64Zero, validQueries |-> 0,
                panicked |-> FALSE, perQuery |-> <<>>])

(* lines 142-144 *)
earlyReturn(results, groundTruth, numQueries) ==
    Len(results) = 0 \/ Len(groundTruth) = 0 \/ numQueries = 0

(* a mean that forgets to divide by the number of valid queries *)
meanMutSum(acc) ==
    IF acc.validQueries = 0 THEN F64Zero ELSE acc.totalRecall

(* a mean that reports perfect recall when there is nothing to average *)
meanMutEmptyIsOne(acc) ==
    IF acc.validQueries = 0 THEN F64Div(1, 1)
    ELSE F64DivInt(acc.totalRecall, acc.validQueries)

(* lines 183-187 *)
mean(acc) ==
    IF acc.validQueries = 0 THEN F64Zero
    ELSE F64DivInt(acc.totalRecall, acc.validQueries)

(* the run ends in a panic instead of a value *)
recallPanics(results, groundTruth, topK, numQueries) ==
    /\ ~earlyReturn(results, groundTruth, numQueries)
    /\ recallRun(results, groundTruth, Int64Of(topK), numQueries).panicked

calculateRecall(results, groundTruth, topK, numQueries) ==
    IF earlyReturn(results, groundTruth, numQueries)
    THEN F64Zero
    ELSE mean(recallRun(results, groundTruth, Int64Of(topK), numQueries))

(* what the loop did, query by query; nothing on the early return *)
perQueryOf(results, groundTruth, topK, numQueries) ==
    IF earlyReturn(results, groundTruth, numQueries)
    THEN <<>>
    ELSE recallRun(results, groundTruth, Int64Of(topK), numQueries).perQuery

(* the outcome of a call: the value returned, or the panic *)
recallOutcome(results, groundTruth, topK, numQueries) ==
    IF earlyReturn(results, groundTruth, numQueries)
    THEN [kind |-> "value", value |-> F64Zero, perQuery |-> <<>>]
    ELSE LET acc == recallRun(results, groundTruth, topK, numQueries) IN
         IF acc.panicked
         THEN [kind |-> "panic", perQuery |-> acc.perQuery]
         ELSE [kind |-> "value", value |-> mean(acc), perQuery |-> acc.perQuery]

-----------------------------------------------------------------------------
(* Inputs of calculateRecall *)

HitIds == {1, 2}

TruthLists == {<<>>, <<1>>, <<2>>, <<1, 2>>, <<1, 1>>}

ToResults(ids) == [i \in 1..Len(ids) |-> SearchResult(ids[i])]

(* the worked example of the repository's documentation of recall@K:
   k=5, groundTruth=[{1,2,3},{4,5}], chunks [1,2,9,9,9] and [4,9,9,9,9] *)
ExampleCall ==
    [op |-> "calculateRecall",
     results |-> ToResults(<<1, 2, 9, 9, 9, 4, 9, 9, 9, 9>>),
     groundTruth |-> <<<<1, 2, 3>>, <<4, 5>>>>,
     topK |-> 5,
     numQueries |-> 2]

RecallCalls ==
    {[op |-> "calculateRecall", results |-> ToResults(ids), groundTruth |-> gt,
      topK |-> k, numQueries |-> n] :
        ids \in SeqsUpTo(HitIds, MaxHits),
        gt \in SeqsUpTo(TruthLists, MaxQueries),
        k \in (-1)..MaxK,
        n \in 0..(MaxQueries + 1)}
    \cup {ExampleCall}

-----------------------------------------------------------------------------
(* The recall evaluator applied to every bounded input *)

NoReturn == [kind |-> "none"]

RecallInit ==
    /\ pc = "called"
    /\ call \in RecallCalls
    /\ ret = NoReturn
    /\ requests = <<>>
    /\ emitted = <<>>
    /\ vu = [state |-> TRUE, done |-> FALSE, tags |-> <<>>]
    /\ frame = <<>>

CalculateRecall ==
    /\ pc = "called"
    /\ call.op = "calculateRecall"
    /\ pc' = "returned"
    /\ ret' = recallOutcome(call.results, call.groundTruth,
                            Int64Of(call.topK), call.numQueries)
    /\ UNCHANGED <<call, requests, emitted, vu, frame>>

RecallNext == CalculateRecall

RecallSpec == RecallInit /\ [][RecallNext]_vars

-----------------------------------------------------------------------------
(* The recall evaluator applied to a topK of any magnitude: topK is given as
   a 64-bit value <<q, r>> = q * 2^62 + r, and up to MaxQueries + 1 queries
   have ground truth.                                                       *)

WideTopKs == {<<q, r>> : q \in (-1)..1, r \in (-1)..MaxK}

WideTruthLists == {<<>>, <<1>>}

WideRecallCalls ==
    {[op |-> "calculateRecall", results |-> ToResults(ids), groundTruth |-> gt,
      topK |-> k, numQueries |-> n] :
        ids \in SeqsUpTo(HitIds, MaxHits),
        gt \in SeqsUpTo(WideTruthLists, MaxQueries + 1),
        k \in WideTopKs,
        n \in 0..(MaxQueries + 2)}

RecallWideInit ==
    /\ pc = "called"
    /\ call \in WideRecallCalls
    /\ ret = NoReturn
    /\ requests = <<>>
    /\ emitted = <<>>
    /\ vu = [state |-> TRUE, done |-> FALSE, tags |-> <<>>]
    /\ frame = <<>>

CalculateRecallWide ==
    /\ pc = "called"
    /\ call.op = "calculateRecall"
    /\ pc' = "returned"
    /\ ret' = recallOutcome(call.results, call.groundTruth, call.topK,
                            call.numQueries)
    /\ UNCHANGED <<call, requests, emitted, vu, frame>>

RecallWideNext == CalculateRecallWide

RecallWideSpec == RecallWideInit /\ [][RecallWideNext]_vars

-----------------------------------------------------------------------------
(* Values of a batch record, client.go Insert(data map[string]interface{}).
   A Go value is a record [go |-> its runtime type, v |-> its content].
   The elements of a []interface{} are such records again; the elements of a
   typed slice are plain values.                                            *)

GoVal(go, v) == [go |-> go, v |-> v]

(* float32(x) for an integer-valued float64 x, client.go:227, 248: round to
   a 24-bit significand, ties to even.  Exact below 2^24.                   *)
RECURSIVE Ulp32(_, _)
Ulp32(n, q) == IF n < 16777216 * q THEN q ELSE Ulp32(n, 2 * q)

F32Abs(n) ==
    LET q    == Ulp32(n, 1)
        r    == n % q
        down == n - r
    IN  IF 2 * r < q THEN down
        ELSE IF 2 * r > q THEN down + q
        ELSE IF (down \div q) % 2 = 0 THEN down ELSE down + q

float32(x) == IF x < 0 THEN -F32Abs(-x) ELSE F32Abs(x)

(* column.NewColumn*: a typed column bound to one field name; dim is set for
   vector columns only.  col.Len() is the number of rows.                   *)
Column(name, type, dim, data) == [name |-> name, type |-> type, dim |-> dim, data |-> data]

ColLen(col) == Len(col.data)

Encoded(col) == [kind |-> "column", column |-> col]

Skipped == [kind |-> "skip"]

Panicked == [kind |-> "panic"]

Failed(err, fieldName) == [kind |-> "error", err |-> err, field |-> fieldName]

AllOf(v, go) == \A i \in 1..Len(v) : v[i].go = go

Unwrap(v) == [i \in 1..Len(v) |-> v[i].v]

(* client.go:213-230: []interface{} whose first element is a float64.  A
   later element of another type fails the type assertion val.(float64).    *)
numberColumnMutAlwaysFloat(fieldName, v) ==
    IF ~AllOf(v, "float64") THEN Panicked
    ELSE Encoded(Column(fieldName, "Float", 0,
                        [i \in 1..Len(v) |-> float32(v[i].v)]))

(* a choice of precision by the values: double where float32 would round *)
numberColumnMutByValue(fieldName, v) ==
    IF ~AllOf(v, "float64") THEN Panicked
    ELSE IF \E i \in 1..Len(v) : float32(v[i].v) # v[i].v
         THEN Encoded(Column(fieldName, "Double", 0, Unwrap(v)))
         ELSE Encoded(Column(fieldName, "Float", 0,
                             [i \in 1..Len(v) |-> float32(v[i].v)]))

numberColumn(fieldName, v) ==
    IF ~AllOf(v, "float64") THEN Panicked
    ELSE IF fieldName = "rating"
         THEN Encoded(Column(fieldName, "Double", 0, Unwrap(v)))
         ELSE Encoded(Column(fieldName, "Float", 0,
                             [i \in 1..Len(v) |-> float32(v[i].v)]))

(* client.go:238-253: []interface{} whose first element is a []interface{} *)
vectorColumn(fieldName, v) ==
    IF \/ ~AllOf(v, "[]interface{}")
       \/ \E i \in 1..Len(v) : ~AllOf(v[i].v, "float64")
    THEN Panicked
    ELSE Encoded(Column(fieldName, "FloatVector", Len(v[1].v),
             [i \in 1..Len(v) |->
                 [j \in 1..Len(v[i].v) |-> float32(v[i].v[j].v)]]))

(* client.go:198-256: a JavaScript array converted to []interface{}; the
   column type is decided by the first element                              *)
interfaceColumn(fieldName, v) ==
    IF Len(v) = 0 THEN Skipped
    ELSE CASE v[1].go = "string" ->
                  IF AllOf(v, "string")
                  THEN Encoded(Column(fieldName, "VarChar", 0, Unwrap(v)))
                  ELSE Panicked
           [] v[1].go = "float64" -> numberColumn(fieldName, v)
           [] v[1].go = "bool" ->
                  IF AllOf(v, "bool")
                  THEN Encoded(Column(fieldName, "Bool", 0, Unwrap(v)))
                  ELSE Panicked
           [] v[1].go = "[]interface{}" -> vectorColumn(fieldName, v)
           [] OTHER -> Failed("unsupported interface{} element type", fieldName)

(* client.go:173-259: the type switch on one field of the batch record *)
encodeField(fieldName, fieldData) ==
    LET v == fieldData.v IN
    CASE fieldData.go = "[][]float32" ->
             IF Len(v) > 0
             THEN Encoded(Column(fieldName, "FloatVector", Len(v[1]), v))
             ELSE Skipped
      [] fieldData.go = "[]int64"   -> Encoded(Column(fieldName, "Int64", 0, v))
      [] fieldData.go = "[]int32"   -> Encoded(Column(fieldName, "Int32", 0, v))
      [] fieldData.go = "[]float32" -> Encoded(Column(fieldName, "Float", 0, v))
      [] fieldData.go = "[]float64" -> Encoded(Column(fieldName, "Double", 0, v))
      [] fieldData.go = "[]string"  -> Encoded(Column(fieldName, "VarChar", 0, v))
      [] fieldData.go = "[]bool"    -> Encoded(Column(fieldName, "Bool", 0, v))
      [] fieldData.go = "[]interface{}" -> interfaceColumn(fieldName, v)
      [] OTHER -> Failed("unsupported field type", fieldName)

(* client.go:172-260: the loop over the map, in the order the runtime visits
   the fields.  It stops at the first field that fails.                     *)
RECURSIVE encodeFields(_, _, _, _)
encodeFields(data, order, i, columns) ==
    IF i > Len(order) THEN [kind |-> "columns", columns |-> columns]
    ELSE LET e == encodeField(order[i], data[order[i]]) IN
         CASE e.kind = "column" -> encodeFields(data, order, i + 1, Append(columns, e.column))
           [] e.kind = "skip"   -> encodeFields(data, order, i + 1, columns)
           [] OTHER             -> e

(* client.go:271-276: the row count, the maximum column length *)
RECURSIVE maxLen(_, _, _)
maxLen(columns, i, vectorCount) ==
    IF i > Len(columns) THEN vectorCount
    ELSE maxLen(columns, i + 1,
                IF ColLen(columns[i]) > vectorCount THEN ColLen(columns[i])
                ELSE vectorCount)

vectorCountMutFirst(columns) == ColLen(columns[1])

vectorCountOf(columns) == maxLen(columns, 1, 0)

(* client.go:298-301: placeholder ids 0..vectorCount-1 *)
placeholderIds(vectorCount) == [i \in 1..vectorCount |-> i - 1]

(* A call of emitMetric by a handler, types.go:160: the metric, the value
   and the custom tags handed over.  A handler's calls are kept in program
   order; each is carried out as a step of its own (EmitSample below).      *)
Emit(calls, metric, value, tags) ==
    Append(calls, [metric |-> metric, value |-> value, tags |-> tags])

(* a metric of the module instance that was never registered *)
Nil == "nil"

(* types.go:170-173: the VU's current tags with the custom tags set over
   them; a custom tag replaces a VU tag of the same name                    *)
MergeTags(vuTags, tags) ==
    [k \in DOMAIN vuTags \cup DOMAIN tags |->
        IF k \in DOMAIN tags THEN tags[k] ELSE vuTags[k]]

(* metrics.PushIfNotDone, types.go:186-190: the context is looked at once,
   before the send.  Under a done context nothing is sent; otherwise the
   sample is handed to the channel send, which waits for the channel and is
   not given up when the context ends meanwhile.  The result is what is
   left to send.                                                            *)
PushIfNotDone(done, sample) == IF done THEN <<>> ELSE <<sample>>

(* the channel send of PushIfNotDone, 'output <- sample' *)
pushMutOverwrite(samples, sample) == <<sample>>

push(samples, sample) == Append(samples, sample)

(* types.go:160-191, emitMetric, up to the send.  v is the VU as the module
   instance sees it: v.state is FALSE where vu.State() is nil (the init
   context), v.done tells whether vu.Context() is done, v.tags are the VU's
   current tags.  The result is what is left to send.                       *)
emitMetric(v, metric, value, tags) ==
    IF ~v.state \/ metric = Nil THEN <<>>
    ELSE PushIfNotDone(v.done, [metric |-> metric, value |-> value,
                                tags |-> MergeTags(v.tags, tags)])

InsertTags(collectionName, status) ==
    [operation |-> "insert", collection |-> collectionName, status |-> status]

Outcome(r, reqs, samples) == [ret |-> r, requests |-> reqs, emitted |-> samples]

ReturnIds(ids) == [kind |-> "ok", ids |-> ids]

ReturnError(err, fieldName) == [kind |-> "error", err |-> err, field |-> fieldName]

ReturnPanic == [kind |-> "panic"]

(* client.go:266-307: the write and what follows it.  reply is the store's
   answer: [err, InsertCount, ms]                                           *)
insertColumns(collectionName, columns, reply) ==
    LET request     == [op |-> "Insert", collection |-> collectionName,
                        columns |-> columns, reply |-> reply]
        vectorCount == vectorCountOf(columns)
    IN  IF reply.err
        THEN LET tags == InsertTags(collectionName, "error")
                 s1   == Emit(<<>>, "milvus_errors", 1, tags)
                 s2   == Emit(s1, "milvus_req_duration", reply.ms, tags)
             IN  Outcome(ReturnError("failed to insert", ""), <<request>>, s2)
        ELSE LET tags == InsertTags(collectionName, "success")
                 s1   == Emit(<<>>, "milvus_reqs", 1, tags)
                 s2   == Emit(s1, "milvus_req_duration", reply.ms, tags)
                 s3   == Emit(s2, "milvus_vectors", vectorCount, tags)
                 s4   == Emit(s3, "milvus_errors", 0, tags)
             IN  IF reply.InsertCount # vectorCount
                 THEN Outcome(ReturnError("insert count mismatch", ""), <<request>>, s4)
                 ELSE Outcome(ReturnIds(placeholderIds(vectorCount)), <<request>>, s4)

(* client.go:262: the loop ended without error and left a column to write *)
reachesStore(data, order) ==
    LET enc == encodeFields(data, order, 1, <<>>) IN
    enc.kind = "columns" /\ Len(enc.columns) > 0

(* Client.Insert, client.go:168-308.  order is the order in which range
   visits the map; reply is the store's answer, read only if the write is
   reached.                                                                 *)
Insert(collectionName, data, order, reply) ==
    LET enc == encodeFields(data, order, 1, <<>>) IN
    CASE enc.kind = "panic" -> Outcome(ReturnPanic, <<>>, <<>>)
      [] enc.kind = "error" -> Outcome(ReturnError(enc.err, enc.field), <<>>, <<>>)
      [] enc.kind = "columns" /\ Len(enc.columns) = 0 ->
             Outcome(ReturnError("no valid columns provided", ""), <<>>, <<>>)
      [] OTHER -> insertColumns(collectionName, enc.columns, reply)

-----------------------------------------------------------------------------
(* Inputs of Insert *)

FieldNames == {"rating", "vector"}

Letters == <<"a", "b", "c", "d", "e">>

Ramp(n) == [i \in 1..n |-> i]

(* typed slices of every length up to MaxRows, with distinct elements *)
TypedValues ==
    UNION {{GoVal("[]int64", Ramp(n)), GoVal("[]int32", Ramp(n)),
            GoVal("[]float32", Ramp(n)), GoVal("[]float64", Ramp(n)),
            GoVal("[]string", [i \in 1..n |-> Letters[i]]),
            GoVal("[]bool", [i \in 1..n |-> i % 2 = 1])} : n \in 0..MaxRows}

(* [][]float32 with rows of dimension 1 or 2, consistent or not *)
VectorValues ==
    {GoVal("[][]float32", s) : s \in SeqsUpTo({<<1>>, <<1, 2>>}, MaxRows)}

(* elements of a JavaScript array: a string, a number that float32 cannot
   hold exactly, a boolean, a value of no supported kind, vectors of
   dimension 1 and 2, and a vector holding a non-number                     *)
Num(x) == GoVal("float64", x)

InterfaceElems ==
    {GoVal("string", "a"), Num(16777217), GoVal("bool", TRUE), GoVal("int64", 7),
     GoVal("[]interface{}", <<Num(1)>>),
     GoVal("[]interface{}", <<Num(16777217), Num(1)>>),
     GoVal("[]interface{}", <<GoVal("string", "a")>>)}

InterfaceValues ==
    {GoVal("[]interface{}", s) : s \in SeqsUpTo(InterfaceElems, MaxRows)}

(* a value that is no sequence at all *)
OtherValues == {GoVal("string", "x")}

FieldValues == TypedValues \cup VectorValues \cup InterfaceValues \cup OtherValues

Batches ==
    UNION {[D -> FieldValues] :
              D \in SUBSET FieldNames}

(* the orders in which range may visit the keys of the map *)
Orders(D) ==
    {o \in [1..Cardinality(D) -> D] : \A i, j \in 1..Cardinality(D) : o[i] = o[j] => i = j}

(* answers of the store to a write: an error, or an acknowledged row count *)
Durations == {0, 7}

Replies ==
    {[err |-> TRUE, InsertCount |-> 0, ms |-> d] : d \in Durations}
    \cup {[err |-> FALSE, InsertCount |-> n, ms |-> d] :
             n \in 0..(MaxRows + 1), d \in Durations}

-----------------------------------------------------------------------------
(* One virtual user calling Insert in a sequential loop *)

(* The VU as k6 hands it to the module instance (types.go:161, 166, 170):
   its state is non-nil in the VU context, its context is live until the
   iteration is interrupted, and it carries its current tags.               *)
VUTags == [scenario |-> "default", operation |-> "iteration"]

LiveVU == [state |-> TRUE, done |-> FALSE, tags |-> VUTags]

(* The activation of the running handler: what it returns, sends and emits
   on the path it took (out), how many of its emitMetric calls are done, the
   sample of the current emitMetric call that waits at the channel send, and
   whether it stands before the Await of a store task.                      *)
NoFrame ==
    [out |-> Outcome(NoReturn, <<>>, <<>>), pushed |-> 0, sending |-> <<>>,
     awaiting |-> FALSE]

InsertInit ==
    /\ pc = "idle"
    /\ call = [op |-> "none"]
    /\ ret = NoReturn
    /\ requests = <<>>
    /\ emitted = <<>>
    /\ vu = LiveVU
    /\ frame = NoFrame

(* the script picks a batch record and calls client.insert *)
CallInsert ==
    /\ pc = "idle"
    /\ \E data \in Batches :
           call' = [op |-> "Insert", collectionName |-> "c", data |-> data]
    /\ pc' = "called"
    /\ UNCHANGED <<ret, requests, emitted, vu, frame>>

NoReply == [err |-> TRUE, InsertCount |-> 0, ms |-> 0]

(* a store call made with vu.Context(): once the context is done the call
   fails with the context's error                                           *)
StoreAnswers(replies) == IF vu.done THEN {r \in replies : r.err} ELSE replies

(* a handler has run up to the answer of its store call, or to its end when
   it makes none: its requests are with the store, its samples not yet
   pushed, its result not yet returned                                      *)
Begin(out) ==
    /\ pc' = "running"
    /\ frame' = [out |-> out, pushed |-> 0, sending |-> <<>>, awaiting |-> FALSE]
    /\ requests' = out.requests
    /\ UNCHANGED <<call, ret, emitted, vu>>

(* a handler has run up to the answer of the request that starts a store
   task; when the task was started its Await is still to come *)
BeginTask(out, awaiting) ==
    /\ pc' = "running"
    /\ frame' = [out |-> out, pushed |-> 0, sending |-> <<>>, awaiting |-> awaiting]
    /\ requests' = IF awaiting THEN SubSeq(out.requests, 1, 1) ELSE out.requests
    /\ UNCHANGED <<call, ret, emitted, vu>>

(* Client.Insert, client.go:168-267: the fields are encoded and the write is
   answered *)
RunInsert ==
    /\ pc = "called"
    /\ call.op = "Insert"
    /\ \E order \in Orders(DOMAIN call.data) :
       \E reply \in (IF reachesStore(call.data, order)
                     THEN StoreAnswers(Replies) ELSE {NoReply}) :
           Begin(Insert(call.collectionName, call.data, order, reply))

(* the next emitMetric call of the running handler, types.go:160-186, up to
   the context check of PushIfNotDone: the call ends here when there is
   nothing to send *)
EmitSample ==
    /\ pc = "running"
    /\ ~frame.awaiting
    /\ frame.sending = <<>>
    /\ frame.pushed < Len(frame.out.emitted)
    /\ LET e    == frame.out.emitted[frame.pushed + 1]
           left == emitMetric(vu, e.metric, e.value, e.tags)
       IN  frame' = [frame EXCEPT !.sending = left,
                                  !.pushed = IF left = <<>> THEN @ + 1 ELSE @]
    /\ UNCHANGED <<pc, call, ret, requests, emitted, vu>>

(* the channel send of PushIfNotDone completes, whatever became of the
   context since the check; the emitMetric call ends *)
SendSample ==
    /\ pc = "running"
    /\ frame.sending # <<>>
    /\ emitted' = push(emitted, frame.sending[1])
    /\ frame' = [frame EXCEPT !.sending = <<>>, !.pushed = @ + 1]
    /\ UNCHANGED <<pc, call, ret, requests, vu>>

(* the handler returns to the script (or panics) *)
ReturnToScript ==
    /\ pc = "running"
    /\ ~frame.awaiting
    /\ frame.sending = <<>>
    /\ frame.pushed = Len(frame.out.emitted)
    /\ ret' = frame.out.ret
    /\ pc' = "returned"
    /\ UNCHANGED <<call, requests, emitted, vu, frame>>

(* k6 interrupts the iteration: the VU's context is done from here on *)
ContextDone ==
    /\ pc \in {"called", "running"}
    /\ ~vu.done
    /\ vu' = [vu EXCEPT !.done = TRUE]
    /\ UNCHANGED <<pc, call, ret, requests, emitted, frame>>

(* the script has observed the outcome; the VU starts its next iteration,
   with a fresh context if the last one was interrupted *)
NextIteration ==
    /\ pc = "returned"
    /\ pc' = "idle"
    /\ call' = [op |-> "none"]
    /\ ret' = NoReturn
    /\ requests' = <<>>
    /\ emitted' = <<>>
    /\ vu' = [vu EXCEPT !.done = FALSE]
    /\ frame' = NoFrame

InsertNext ==
    CallInsert \/ RunInsert \/ EmitSample \/ SendSample \/ ReturnToScript
        \/ ContextDone \/ NextIteration

InsertSpec == InsertInit /\ [][InsertNext]_vars

-----------------------------------------------------------------------------
(* Properties of calculateRecall, checked under RecallSpec *)

RecallReturned == pc = "returned" /\ call.op = "calculateRecall"

(* number of queries the loop evaluates, line 151 *)
Evaluated(c) == IF c.numQueries < Len(c.groundTruth) THEN c.numQueries
                ELSE Len(c.groundTruth)

(* chunk i (0-based) of a flat hit sequence under a fixed stride k: the flat
   positions [i*k, (i+1)*k) that exist *)
ChunkPositions(results, i, k) ==
    {p \in (i * k)..((i + 1) * k - 1) : p >= 0 /\ p < Len(results)}

(* positions of chunk i whose id is relevant to query i *)
ChunkMatches(c, i) ==
    {p \in ChunkPositions(c.results, i, c.topK) :
        c.results[p + 1].ID \in Range(c.groundTruth[i + 1])}

(* ids of chunk i, as a set *)
ChunkIds(c, i) == {c.results[p + 1].ID : p \in ChunkPositions(c.results, i, c.topK)}

(* C1: for every evaluated query i with non-empty ground truth, the positions
   counted for query i are exactly the positions of chunk i = [i*k, (i+1)*k)
   whose id is in groundTruth[i], and the per-query recall is that count over
   the size of groundTruth[i]; also when an earlier query has empty ground
   truth. *)
C1_FixedStrideAttribution ==
    (RecallReturned /\ ~earlyReturn(call.results, call.groundTruth, call.numQueries))
    => \A i \in 0..(Evaluated(call) - 1) :
           Len(call.groundTruth[i + 1]) > 0 =>
               /\ ret.perQuery[i + 1].positions = ChunkMatches(call, i)
               /\ ret.perQuery[i + 1].recall =
                      F64Div(Cardinality(ChunkMatches(call, i)),
                          Len(call.groundTruth[i + 1]))

(* C2: with two queries, groundTruth[0] empty, groundTruth[1] non-empty and
   2*k hits, the result is the recall of the second query alone, computed on
   the second chunk hits[k..2k). *)
C2_EmptyFirstQuerySecondChunk ==
    (/\ RecallReturned
     /\ call.numQueries = 2
     /\ Len(call.groundTruth) = 2
     /\ Len(call.groundTruth[1]) = 0
     /\ Len(call.groundTruth[2]) > 0
     /\ call.topK >= 1
     /\ Len(call.results) = 2 * call.topK)
    => ret.value = F64Div(Cardinality(ChunkMatches(call, 1)),
                          Len(call.groundTruth[2]))

(* sum over queries 0..n-1, in that order, of
   |chunk_i \cap groundTruth[i]| / |groundTruth[i]|, in float64 *)
RECURSIVE SumChunkRecall(_, _)
SumChunkRecall(c, n) ==
    IF n = 0 THEN F64Zero
    ELSE F64Add(SumChunkRecall(c, n - 1),
                F64Div(Cardinality(ChunkIds(c, n - 1) \cap Range(c.groundTruth[n])),
                    Len(c.groundTruth[n])))

(* no id relevant to query i occurs twice in chunk i; this is the case in
   particular when the ids of a chunk are pairwise distinct *)
RelevantIdsDistinct(c, i) ==
    \A p, q \in ChunkPositions(c.results, i, c.topK) :
        (p # q /\ c.results[p + 1].ID = c.results[q + 1].ID)
        => c.results[p + 1].ID \notin Range(c.groundTruth[i + 1])

(* every query has ground truth and exactly k hits, the relevant ones
   distinct within a chunk *)
FullDistinctChunks(c) ==
    /\ c.numQueries >= 1
    /\ c.numQueries <= Len(c.groundTruth)
    /\ c.topK >= 1
    /\ Len(c.results) = c.numQueries * c.topK
    /\ \A i \in 0..(c.numQueries - 1) :
           /\ Len(c.groundTruth[i + 1]) > 0
           /\ RelevantIdsDistinct(c, i)

(* two float64 values that are equal or neighbours: they differ by at most
   one unit in the last place *)
F64Near(x, y) ==
    \/ x = y
    \/ Rounded(x[1], x[2], TRUE) = y
    \/ Rounded(y[1], y[2], TRUE) = x

(* C3: when every query has non-empty ground truth and exactly k hits whose
   relevant ids are distinct within its chunk, the result is the arithmetic
   mean over the queries of |chunk_i \cap groundTruth[i]| / |groundTruth[i]|
   (the size of the ground-truth list, search.go:176), computed in float64;
   the worked example gives per-query recall 2/3 and 1/2 and an overall
   recall of 7/12 to within one unit in the last place of a float64. *)
C3_MeanOfPerQueryRecall ==
    /\ (RecallReturned /\ FullDistinctChunks(call))
           => ret.value = F64DivInt(SumChunkRecall(call, call.numQueries),
                                    call.numQueries)
    /\ (RecallReturned /\ call = ExampleCall)
           => /\ ret.perQuery[1].recall = F64Div(2, 3)
              /\ ret.perQuery[2].recall = F64Div(1, 2)
              /\ F64Near(ret.value, F64Div(7, 12))

C3_Witness ==
    /\ RecallReturned
    /\ call = ExampleCall
    /\ FullDistinctChunks(call)
    /\ F64Near(ret.value, F64Div(7, 12))

(* no evaluated query has a non-empty ground-truth list *)
NoValidQuery(c) ==
    \A i \in 0..(Evaluated(c) - 1) : Len(c.groundTruth[i + 1]) = 0

(* C4: the result is exactly 0.0, returned as a value, whenever hits is
   empty, groundTruth is empty, numQueries is 0, or no evaluated query has a
   non-empty ground-truth list. *)
C4_ZeroWithoutValidQueries ==
    (/\ RecallReturned
     /\ \/ Len(call.results) = 0
        \/ Len(call.groundTruth) = 0
        \/ call.numQueries = 0
        \/ NoValidQuery(call))
    => (ret.kind = "value" /\ ret.value = F64Zero)

C4_Witness ==
    /\ RecallReturned
    /\ Len(call.results) > 0
    /\ Len(call.groundTruth) = 2
    /\ call.numQueries = 2
    /\ call.topK >= 1
    /\ NoValidQuery(call)
    /\ ret.value = F64Zero

(* x <= y for float64 values x, y >= 0 *)
BitsLeq(a, b) ==
    \/ a = b
    \/ \E i \in 1..Len(a) : a[i] < b[i] /\ \A j \in 1..(i - 1) : a[j] = b[j]

F64Leq(x, y) ==
    \/ x[1] = <<>>
    \/ /\ y[1] # <<>>
       /\ \/ x[2] < y[2]
          \/ x[2] = y[2] /\ BitsLeq(x[1], y[1])

(* C5: for every input the value returned lies in [0,1]. *)
C5_RecallInUnitInterval ==
    (RecallReturned /\ ret.kind = "value") => F64Leq(ret.value, F64Div(1, 1))

-----------------------------------------------------------------------------
(* Properties of Client.Insert, checked under InsertSpec *)

InsertReturned == pc = "returned" /\ call.op = "Insert"

WriteIssued == Len(requests) = 1

SetMax(S) == CHOOSE x \in S : \A y \in S : y <= x

TypedKinds == {"[]int64", "[]int32", "[]float32", "[]float64", "[]string", "[]bool"}

SequenceKinds == TypedKinds \cup {"[][]float32", "[]interface{}"}

ScalarElemKinds == {"string", "float64", "bool"}

IsSequence(fd) == fd.go \in SequenceKinds

EmptySequence(fd) == IsSequence(fd) /\ Len(fd.v) = 0

(* a loosely-typed sequence of sequences of numbers *)
LooseVectors(fd) ==
    /\ fd.go = "[]interface{}"
    /\ Len(fd.v) > 0
    /\ AllOf(fd.v, "[]interface{}")
    /\ \A i \in 1..Len(fd.v) : AllOf(fd.v[i].v, "float64")

(* a loosely-typed sequence of strings, of numbers or of booleans *)
LooseScalars(fd) ==
    /\ fd.go = "[]interface{}"
    /\ Len(fd.v) > 0
    /\ fd.v[1].go \in ScalarElemKinds
    /\ AllOf(fd.v, fd.v[1].go)

(* a non-empty sequence of supported, internally consistent shape *)
SupportedNonEmpty(fd) ==
    \/ (fd.go \in TypedKinds \cup {"[][]float32"} /\ Len(fd.v) > 0)
    \/ LooseScalars(fd)
    \/ LooseVectors(fd)

(* the elements of the input sequence as plain values *)
InputElems(fd) ==
    IF fd.go # "[]interface{}" THEN fd.v
    ELSE IF LooseVectors(fd) THEN [i \in 1..Len(fd.v) |-> Unwrap(fd.v[i].v)]
    ELSE Unwrap(fd.v)

(* every field of the batch is non-empty, supported and of length L *)
UniformBatch(data, L) ==
    /\ DOMAIN data # {}
    /\ \A f \in DOMAIN data : SupportedNonEmpty(data[f]) /\ Len(data[f].v) = L

ColumnNames(columns) == {columns[i].name : i \in 1..Len(columns)}

(* C6: the row count N is the maximum column length; a store that
   acknowledges InsertCount = N makes Insert return exactly the ids
   0,1,...,N-1 in order, on every such call; a store that acknowledges
   M # N makes it return an error and no ids. *)
C6_IdsOrCountMismatch ==
    (InsertReturned /\ WriteIssued /\ ~requests[1].reply.err)
    => LET N == SetMax({ColLen(requests[1].columns[i]) :
                           i \in 1..Len(requests[1].columns)})
       IN  IF requests[1].reply.InsertCount = N
           THEN ret = [kind |-> "ok", ids |-> [i \in 1..N |-> i - 1]]
           ELSE ret.kind = "error" /\ "ids" \notin DOMAIN ret

C6_Witness ==
    /\ InsertReturned
    /\ WriteIssued
    /\ Len(requests[1].columns) = 2
    /\ ColLen(requests[1].columns[1]) = 1
    /\ ColLen(requests[1].columns[2]) = 2
    /\ requests[1].reply.InsertCount = 2
    /\ ret.kind = "ok"
    /\ ret.ids = <<0, 1>>

(* C7 as claimed: for a batch of N non-empty supported fields of the same
   length L, the write receives exactly N columns, one per field name, each
   of length L, whose i-th element is the i-th element of the input. *)
C7_ColumnsEqualInput ==
    (InsertReturned /\ \E L \in 1..MaxRows : UniformBatch(call.data, L))
    => /\ WriteIssued
       /\ Len(requests[1].columns) = Cardinality(DOMAIN call.data)
       /\ ColumnNames(requests[1].columns) = DOMAIN call.data
       /\ \A i \in 1..Len(requests[1].columns) :
              LET col == requests[1].columns[i] IN
              /\ ColLen(col) = Len(call.data[col.name].v)
              /\ col.data = InputElems(call.data[col.name])

(* the input elements converted to the element type of the column: single
   precision for loosely-typed numbers outside the field "rating" and for
   the components of loosely-typed vectors, unchanged otherwise *)
ConvertedElems(fieldName, fd) ==
    IF LooseVectors(fd)
    THEN [i \in 1..Len(fd.v) |->
             [j \in 1..Len(fd.v[i].v) |-> float32(fd.v[i].v[j].v)]]
    ELSE IF LooseScalars(fd) /\ fd.v[1].go = "float64" /\ fieldName # "rating"
    THEN [i \in 1..Len(fd.v) |-> float32(fd.v[i].v)]
    ELSE InputElems(fd)

(* C7, amended: for a batch of N non-empty supported fields of the same
   length L, the write receives exactly N columns, one per field name, each
   of length L, whose i-th element is the i-th element of the input
   converted to the element type of the column (rounded to single precision
   for loosely-typed numbers of a field other than "rating" and for the
   components of loosely-typed vectors, unchanged otherwise). *)
C7_ColumnsConvertInput ==
    (InsertReturned /\ \E L \in 1..MaxRows : UniformBatch(call.data, L))
    => /\ WriteIssued
       /\ Len(requests[1].columns) = Cardinality(DOMAIN call.data)
       /\ ColumnNames(requests[1].columns) = DOMAIN call.data
       /\ \A i \in 1..Len(requests[1].columns) :
              LET col == requests[1].columns[i] IN
              /\ ColLen(col) = Len(call.data[col.name].v)
              /\ col.data = ConvertedElems(col.name, call.data[col.name])

C7_Witness ==
    /\ InsertReturned
    /\ UniformBatch(call.data, 2)
    /\ DOMAIN call.data = {"rating", "vector"}
    /\ LooseScalars(call.data["vector"])
    /\ call.data["vector"].v[1].go = "float64"
    /\ call.data["rating"].go = "[]string"
    /\ WriteIssued
    /\ Len(requests[1].columns) = 2
    /\ \E i \in 1..2 :
           /\ requests[1].columns[i].name = "vector"
           /\ requests[1].columns[i].data = <<16777216, 16777216>>
           /\ requests[1].columns[i].data # InputElems(call.data["vector"])

(* a sequence of sequences of numbers, typed or loosely typed *)
VectorField(fd) == fd.go = "[][]float32" \/ LooseVectors(fd)

InnerLengths(fd) ==
    IF fd.go = "[][]float32" THEN {Len(fd.v[i]) : i \in 1..Len(fd.v)}
    ELSE {Len(fd.v[i].v) : i \in 1..Len(fd.v)}

(* C8: every vector column handed to the store has as dimension the length
   of the first inner sequence and only rows of that length; a batch with
   inner sequences of different lengths makes Insert fail with an
   inconsistent-dimension error, without a write. *)
C8_ConsistentVectorDimension ==
    InsertReturned
    => /\ \A r \in 1..Len(requests) : \A i \in 1..Len(requests[r].columns) :
              LET col == requests[r].columns[i] IN
              col.type = "FloatVector"
              => /\ col.dim = Len(InputElems(call.data[col.name])[1])
                 /\ \A j \in 1..Len(col.data) : Len(col.data[j]) = col.dim
       /\ (\E f \in DOMAIN call.data :
               VectorField(call.data[f]) /\ Cardinality(InnerLengths(call.data[f])) > 1)
          => /\ ret.kind = "error"
             /\ ret.err = "inconsistent vector dimension"
             /\ requests = <<>>

NoSuccessSample ==
    \A i \in 1..Len(emitted) : emitted[i].tags.status # "success"

(* C9: a field whose value is an empty sequence of a supported kind yields
   no column; when no column results (empty batch or only empty sequences)
   Insert fails with "no valid columns", issues no write and emits no
   success sample. *)
C9_EmptySequencesSkipped ==
    InsertReturned
    => /\ \A f \in DOMAIN call.data :
              EmptySequence(call.data[f])
              => \A r \in 1..Len(requests) : f \notin ColumnNames(requests[r].columns)
       /\ (\A f \in DOMAIN call.data : EmptySequence(call.data[f]))
          => /\ ret.kind = "error"
             /\ ret.err = "no valid columns provided"
             /\ requests = <<>>
             /\ NoSuccessSample

(* a value that is no supported sequence, or a loosely-typed sequence whose
   first element is not a string, number, boolean or sequence *)
Unsupported(fd) ==
    \/ ~IsSequence(fd)
    \/ /\ fd.go = "[]interface{}"
       /\ Len(fd.v) > 0
       /\ fd.v[1].go \notin ScalarElemKinds \cup {"[]interface{}"}

UnsupportedErrors == {"unsupported field type", "unsupported interface{} element type"}

(* C10: if any field of the batch is unsupported, Insert returns an
   unsupported-type error naming such a field, issues no write and returns
   no ids. *)
C10_UnsupportedFieldRejected ==
    (InsertReturned /\ \E f \in DOMAIN call.data : Unsupported(call.data[f]))
    => /\ ret.kind = "error"
       /\ ret.err \in UnsupportedErrors
       /\ ret.field \in DOMAIN call.data
       /\ Unsupported(call.data[ret.field])
       /\ requests = <<>>
       /\ "ids" \notin DOMAIN ret

-----------------------------------------------------------------------------
(* Client.Search, search.go:14-106.
   params is a map[string]interface{}: a function from the keys present to
   Go values.  The store answers a search with an error or with one result
   set per query vector: [ResultCount, IDs, Scores, Fields], where IDs and
   the columns of Fields answer Get(i) with a value for i below their length
   and with an error otherwise.  Primary keys are int64 (types.go:28) and
   Scores holds ResultCount entries.                                        *)

Has(params, key) == key \in DOMAIN params

IsString(params, key) == Has(params, key) /\ params[key].go = "string"

(* lines 25-28 *)
vectorFieldMutAlwaysDefault(params) == "vector"

vectorFieldOf(params) ==
    IF IsString(params, "vectorField") THEN params["vectorField"].v ELSE "vector"

(* lines 32, 81: params["outputFields"].([]string) *)
IsStringSlice(params, key) == Has(params, key) /\ params[key].go = "[]string"

(* lines 32-36 *)
outputFieldsOf(params) ==
    IF IsStringSlice(params, "outputFields") THEN params["outputFields"].v
    ELSE <<"id">>

(* lines 39-41 *)
filterOf(params) ==
    IF IsString(params, "expr") THEN [set |-> TRUE, expr |-> params["expr"].v]
    ELSE [set |-> FALSE]

(* lines 17-49: the search option sent to the store *)
searchOption(collectionName, vectors, topK, params) ==
    [op |-> "Search", collection |-> collectionName, topK |-> topK,
     vectors |-> vectors,
     annsField |-> vectorFieldOf(params),
     outputFields |-> outputFieldsOf(params),
     filter |-> filterOf(params)]

(* column.Get(i), 0-based: a value, or an error past the end *)
GetOk(col, i) == i + 1 <= Len(col)

(* lines 81-91: the fields copied into one hit *)
copiedNamesMutAllColumns(result, params, i) ==
    {f \in DOMAIN result.Fields : GetOk(result.Fields[f], i)}

copiedNames(result, params, i) ==
    IF IsStringSlice(params, "outputFields")
    THEN {f \in Range(params["outputFields"].v) :
             /\ f # "id"
             /\ f \in DOMAIN result.Fields          \* GetColumn(field) != nil
             /\ GetOk(result.Fields[f], i)}
    ELSE {}

(* lines 72 and 77: decoding hit i (0-based) panics when the score slice has
   no entry i, or when the id read is not an int64 (a VarChar primary key) *)
hitPanics(result, i) ==
    \/ i + 1 > Len(result.Scores)
    \/ GetOk(result.IDs, i) /\ result.idType # "Int64"

(* lines 66-96: decoding the result sets panics at some hit *)
decodePanics(searchResult) ==
    \E q \in 1..Len(searchResult) :
        \E i \in 0..(searchResult[q].ResultCount - 1) : hitPanics(searchResult[q], i)

(* lines 70-93: hit i (0-based) of one result set, when decoding it does not
   panic *)
decodeHit(result, params, i) ==
    [ID     |-> IF GetOk(result.IDs, i) THEN result.IDs[i + 1] ELSE 0,
     Score  |-> result.Scores[i + 1],
     Fields |-> [f \in copiedNames(result, params, i) |-> result.Fields[f][i + 1]]]

(* lines 69-95: the hits of one result set, in rank order *)
decodeResultMutReversed(result, params) ==
    [j \in 1..result.ResultCount |-> decodeHit(result, params, result.ResultCount - j)]

decodeResult(result, params) ==
    [j \in 1..result.ResultCount |-> decodeHit(result, params, j - 1)]

(* lines 66-96: the result sets in submission order, concatenated *)
RECURSIVE decodeAll(_, _, _, _)
decodeAll(searchResult, params, q, results) ==
    IF q > Len(searchResult) THEN results
    ELSE decodeAll(searchResult, params, q + 1,
                   results \o decodeResult(searchResult[q], params))

(* fmt.Sprintf("%d", n) *)
Digits == <<"0", "1", "2", "3", "4", "5", "6", "7", "8", "9">>

RECURSIVE Decimal(_)
Decimal(n) ==
    IF n < 0 THEN "-" \o Decimal(0 - n)
    ELSE IF n < 10 THEN Digits[n + 1]
    ELSE Decimal(n \div 10) \o Digits[(n % 10) + 1]

(* lines 51-55, 58 and 98 *)
SearchTags(collectionName, topK, status) ==
    [operation |-> "search", collection |-> collectionName,
     topk |-> Decimal(topK), status |-> status]

ReturnResults(results) == [kind |-> "ok", results |-> results]

(* Client.Search.  reply is the store's answer: [err, sets, ms] *)
Search(collectionName, vectors, topK, params, reply) ==
    LET request == searchOption(collectionName, vectors, topK, params)
        sent    == <<[request |-> request, op |-> "Search", reply |-> reply]>>
    IN  IF reply.err
        THEN LET tags == SearchTags(collectionName, topK, "error")
                 s1   == Emit(<<>>, "milvus_errors", 1, tags)
                 s2   == Emit(s1, "milvus_req_duration", reply.ms, tags)
             IN  Outcome(ReturnError("failed to search", ""), sent, s2)
        ELSE IF decodePanics(reply.sets)
        THEN Outcome(ReturnPanic, sent, <<>>)
        ELSE LET results == decodeAll(reply.sets, params, 1, <<>>)
                 tags == SearchTags(collectionName, topK, "success")
                 s1   == Emit(<<>>, "milvus_reqs", 1, tags)
                 s2   == Emit(s1, "milvus_req_duration", reply.ms, tags)
                 s3   == Emit(s2, "milvus_vectors", Len(vectors), tags)
                 s4   == Emit(s3, "milvus_errors", 0, tags)
             IN  Outcome(ReturnResults(results), sent, s4)

(* lines 128-132: the tags of the recall sample *)
RecallTags(collectionName, topK) ==
    [operation |-> "search_with_recall", collection |-> collectionName,
     topk |-> Decimal(topK)]

(* Client.SearchWithRecall, search.go:119-137 *)
SearchWithRecall(collectionName, vectors, topK, params, groundTruth, reply) ==
    LET out == Search(collectionName, vectors, topK, params, reply) IN
    IF out.ret.kind = "ok" /\ Len(groundTruth) > 0
    THEN IF recallPanics(out.ret.results, groundTruth, topK, Len(vectors))
         THEN [out EXCEPT !.ret = ReturnPanic]
         ELSE LET recall == calculateRecall(out.ret.results, groundTruth, topK,
                                            Len(vectors))
              IN  [out EXCEPT !.emitted =
                      Emit(@, "milvus_recall", recall,
                                 RecallTags(collectionName, topK))]
    ELSE out

-----------------------------------------------------------------------------
(* Inputs of Search *)

QueryVectors == {[i \in 1..n |-> <<i>>] : n \in 0..MaxQueries}

(* maps over subsets of the keys, one value per key from its choices *)
ParamChoices ==
    [vectorField  |-> {GoVal("string", "embedding"), GoVal("int64", 1)},
     outputFields |-> {GoVal("[]string", <<"id", "title">>),
                       GoVal("[]string", <<"title", "price">>),
                       GoVal("[]interface{}", <<GoVal("string", "title")>>)},
     expr         |-> {GoVal("string", "price > 20"), GoVal("bool", TRUE)},
     searchParams |-> {GoVal("map[string]interface{}", <<>>)}]

Extend(m, k, v) == [x \in DOMAIN m \cup {k} |-> IF x = k THEN v ELSE m[x]]

RECURSIVE MapsOverKeys(_, _)
MapsOverKeys(choices, keys) ==
    IF keys = {} THEN {<<>>}
    ELSE LET k    == CHOOSE x \in keys : TRUE
             rest == MapsOverKeys(choices, keys \ {k})
         IN  rest \cup {Extend(m, k, v) : m \in rest, v \in choices[k]}

MapsOver(choices) == MapsOverKeys(choices, DOMAIN choices)

SearchParams == MapsOver(ParamChoices)

(* the result set of query q: rc hits with ids 10q+1.., scores 100q+1..;
   the id column lacks its last entry when shortIds (at most one result set
   of a reply does)                                                          *)
ResultSet(q, rc, shortIds, columns) ==
    [ResultCount |-> rc,
     idType |-> "Int64",
     IDs    |-> [j \in 1..(IF shortIds /\ rc > 0 THEN rc - 1 ELSE rc) |-> 10 * q + j],
     Scores |-> [j \in 1..rc |-> 100 * q + j],
     Fields |-> [f \in columns |-> [j \in 1..rc |-> 1000 * q + j]]]

(* the same result set of a collection whose primary key is a VarChar: the
   ids are strings, written here by their numbers *)
VarCharIds(set) == [set EXCEPT !.idType = "VarChar"]

ColumnSets == {{"price"}, {"title", "price", "secret"}}

ResultSetsFor(nq, topK) ==
    UNION {{[q \in 1..nq |-> ResultSet(q, rc[q], q = short, cols)] :
               rc \in [1..nq -> 0..topK], short \in 0..nq} :
           cols \in ColumnSets}
    \cup {[q \in 1..nq |-> VarCharIds(ResultSet(q, rc[q], FALSE, {"price"}))] :
              rc \in [1..nq -> 0..topK]}

SearchReplies(nq, topK) ==
    {[err |-> TRUE, sets |-> <<>>, ms |-> d] : d \in Durations}
    \cup {[err |-> FALSE, sets |-> rs, ms |-> d] :
             rs \in ResultSetsFor(nq, topK), d \in Durations}

GroundTruths == {<<>>, <<<<11, 12>>, <<21>>>>, <<<<>>, <<21, 99>>>>}

-----------------------------------------------------------------------------
(* One virtual user calling Search and SearchWithRecall *)

CallSearch ==
    /\ pc = "idle"
    /\ \E vectors \in QueryVectors, topK \in 1..MaxK, params \in SearchParams :
           call' = [op |-> "Search", collectionName |-> "c", vectors |-> vectors,
                    topK |-> topK, params |-> params]
    /\ pc' = "called"
    /\ UNCHANGED <<ret, requests, emitted, vu, frame>>

(* Client.Search, search.go:14-96: the search is answered and decoded *)
RunSearch ==
    /\ pc = "called"
    /\ call.op = "Search"
    /\ \E reply \in StoreAnswers(SearchReplies(Len(call.vectors), call.topK)) :
           Begin(Search(call.collectionName, call.vectors, call.topK,
                        call.params, reply))

CallSearchWithRecall ==
    /\ pc = "idle"
    /\ \E vectors \in QueryVectors, topK \in 1..MaxK, params \in SearchParams,
          groundTruth \in GroundTruths :
           call' = [op |-> "SearchWithRecall", collectionName |-> "c",
                    vectors |-> vectors, topK |-> topK, params |-> params,
                    groundTruth |-> groundTruth]
    /\ pc' = "called"
    /\ UNCHANGED <<ret, requests, emitted, vu, frame>>

(* Client.SearchWithRecall, search.go:119-137, up to the answer of the
   search *)
RunSearchWithRecall ==
    /\ pc = "called"
    /\ call.op = "SearchWithRecall"
    /\ \E reply \in StoreAnswers(SearchReplies(Len(call.vectors), call.topK)) :
           Begin(SearchWithRecall(call.collectionName, call.vectors, call.topK,
                                  call.params, call.groundTruth, reply))

SearchNext ==
    CallSearch \/ RunSearch \/ CallSearchWithRecall \/ RunSearchWithRecall
        \/ EmitSample \/ SendSample \/ ReturnToScript \/ ContextDone \/ NextIteration

SearchSpec == InsertInit /\ [][SearchNext]_vars

-----------------------------------------------------------------------------
(* Client.CreateIndex (client.go:319-397) and Client.LoadCollection
   (client.go:151-160).  Both issue one task to the store and then await
   it.  issue is the store's answer to the request, [err]; await is the
   outcome of task.Await under the caller's context, [err, cause].          *)

DefaultNlist == 1024
DefaultM == 4
DefaultNbits == 8
DefaultHnswM == 16
DefaultEfConstruction == 200

(* indexParams[key].(int) with a default *)
intParam(indexParams, key, default) ==
    IF Has(indexParams, key) /\ indexParams[key].go = "int"
    THEN indexParams[key].v ELSE default

(* lines 323, 326-328 *)
indexTypeOf(indexParams) ==
    IF IsString(indexParams, "indexType") THEN indexParams["indexType"].v ELSE "FLAT"

(* lines 324, 330-339 *)
metricTypeOf(indexParams) ==
    IF IsString(indexParams, "metricType")
           /\ indexParams["metricType"].v \in {"L2", "IP", "COSINE"}
    THEN indexParams["metricType"].v ELSE "L2"

IndexTypes == {"FLAT", "IVF_FLAT", "IVF_SQ8", "IVF_PQ", "HNSW"}

Built(idx) == [ok |-> TRUE, idx |-> idx]

(* lines 341-382: the index description, or the unsupported type *)
buildIndex(indexParams) ==
    LET indexType  == indexTypeOf(indexParams)
        metricType == metricTypeOf(indexParams)
        nlist      == intParam(indexParams, "nlist", DefaultNlist)
    IN  CASE indexType = "FLAT" ->
                Built([type |-> "FLAT", metricType |-> metricType, params |-> <<>>])
          [] indexType = "IVF_FLAT" ->
                Built([type |-> "IVF_FLAT", metricType |-> metricType,
                       params |-> [nlist |-> nlist]])
          [] indexType = "IVF_SQ8" ->
                Built([type |-> "IVF_SQ8", metricType |-> metricType,
                       params |-> [nlist |-> nlist]])
          [] indexType = "IVF_PQ" ->
                Built([type |-> "IVF_PQ", metricType |-> metricType,
                       params |-> [nlist |-> nlist,
                                   m     |-> intParam(indexParams, "m", DefaultM),
                                   nbits |-> intParam(indexParams, "nbits", DefaultNbits)]])
          [] indexType = "HNSW" ->
                Built([type |-> "HNSW", metricType |-> metricType,
                       params |-> [M |-> intParam(indexParams, "M", DefaultHnswM),
                                   efConstruction |->
                                       intParam(indexParams, "efConstruction",
                                                DefaultEfConstruction)]])
          [] OTHER -> [ok |-> FALSE, indexType |-> indexType]

ReturnNil == [kind |-> "ok"]

StoreRequest(op, request, reply) == [op |-> op, request |-> request, reply |-> reply]

AwaitTask(op, await) == [op |-> "Await", request |-> [task |-> op], reply |-> await]

(* Client.CreateIndex *)
CreateIndexMutIgnoreAwait(collectionName, fieldName, indexParams, issue, await) ==
    LET built == buildIndex(indexParams)
        sent  == StoreRequest("CreateIndex",
                     [collection |-> collectionName, field |-> fieldName,
                      index |-> built.idx], issue)
    IN  IF ~built.ok
        THEN Outcome(ReturnError("unsupported index type", built.indexType), <<>>, <<>>)
        ELSE IF issue.err
        THEN Outcome(ReturnError("failed to create index", ""), <<sent>>, <<>>)
        ELSE Outcome(ReturnNil, <<sent, AwaitTask("CreateIndex", await)>>, <<>>)

CreateIndex(collectionName, fieldName, indexParams, issue, await) ==
    LET built == buildIndex(indexParams)
        sent  == StoreRequest("CreateIndex",
                     [collection |-> collectionName, field |-> fieldName,
                      index |-> built.idx], issue)
    IN  IF ~built.ok
        THEN Outcome(ReturnError("unsupported index type", built.indexType), <<>>, <<>>)
        ELSE IF issue.err
        THEN Outcome(ReturnError("failed to create index", ""), <<sent>>, <<>>)
        ELSE IF await.err
        THEN Outcome(ReturnError("failed to wait for index creation", ""),
                     <<sent, AwaitTask("CreateIndex", await)>>, <<>>)
        ELSE Outcome(ReturnNil, <<sent, AwaitTask("CreateIndex", await)>>, <<>>)

(* Client.LoadCollection: the store's or the await's error is returned as is *)
LoadCollectionMutAwaitAfterError(collectionName, issue, await) ==
    LET sent == StoreRequest("LoadCollection", [collection |-> collectionName], issue)
    IN  IF await.err
        THEN Outcome(ReturnError(await.cause, ""),
                     <<sent, AwaitTask("LoadCollection", await)>>, <<>>)
        ELSE Outcome(ReturnNil, <<sent, AwaitTask("LoadCollection", await)>>, <<>>)

LoadCollection(collectionName, issue, await) ==
    LET sent == StoreRequest("LoadCollection", [collection |-> collectionName], issue)
    IN  IF issue.err
        THEN Outcome(ReturnError(issue.cause, ""), <<sent>>, <<>>)
        ELSE IF await.err
        THEN Outcome(ReturnError(await.cause, ""),
                     <<sent, AwaitTask("LoadCollection", await)>>, <<>>)
        ELSE Outcome(ReturnNil, <<sent, AwaitTask("LoadCollection", await)>>, <<>>)

ReturnBool(has) == [kind |-> "ok", has |-> has]

(* Client.DropCollection, client.go:141-144 *)
DropCollection(collectionName, reply) ==
    LET sent == StoreRequest("DropCollection", [collection |-> collectionName], reply)
    IN  IF reply.err THEN Outcome(ReturnError(reply.cause, ""), <<sent>>, <<>>)
        ELSE Outcome(ReturnNil, <<sent>>, <<>>)

(* Client.HasCollection, client.go:146-149 *)
HasCollection(collectionName, reply) ==
    LET sent == StoreRequest("HasCollection", [collection |-> collectionName], reply)
    IN  IF reply.err THEN Outcome(ReturnError(reply.cause, ""), <<sent>>, <<>>)
        ELSE Outcome(ReturnBool(reply.has), <<sent>>, <<>>)

(* Client.ReleaseCollection, client.go:162-165 *)
ReleaseCollection(collectionName, reply) ==
    LET sent == StoreRequest("ReleaseCollection", [collection |-> collectionName],
                             reply)
    IN  IF reply.err THEN Outcome(ReturnError(reply.cause, ""), <<sent>>, <<>>)
        ELSE Outcome(ReturnNil, <<sent>>, <<>>)

-----------------------------------------------------------------------------
(* Inputs of CreateIndex and LoadCollection *)

IndexParamChoices ==
    [indexType  |-> {GoVal("string", t) : t \in IndexTypes \cup {"ANNOY", ""}}
                        \cup {GoVal("int64", 1)},
     metricType |-> {GoVal("string", t) : t \in {"L2", "IP", "COSINE", "HAMMING"}}
                        \cup {GoVal("bool", TRUE)},
     nlist      |-> {GoVal("int", 128), GoVal("int64", 128)},
     m          |-> {GoVal("int", 2)},
     M          |-> {GoVal("int", 8), GoVal("int64", 8)}]

IndexParams == MapsOver(IndexParamChoices)

IssueReplies ==
    {[err |-> FALSE, cause |-> ""], [err |-> TRUE, cause |-> "store error"]}

AwaitReplies ==
    {[err |-> FALSE, cause |-> ""],
     [err |-> TRUE, cause |-> "task failed"],
     [err |-> TRUE, cause |-> "context deadline exceeded"]}

NoAwait == [err |-> TRUE, cause |-> "not awaited"]

NotSent == [err |-> TRUE, cause |-> "not sent"]

(* the await outcomes that can follow an answer to the request *)
AwaitsAfter(issue) == IF issue.err THEN {NoAwait} ELSE AwaitReplies

(* the index parameters of a call: CreateIndexSimple passes FLAT and L2,
   client.go:400-406 *)
IndexParamsOf(c) ==
    IF c.op = "CreateIndexSimple"
    THEN [indexType  |-> GoVal("string", "FLAT"),
          metricType |-> GoVal("string", "L2")]
    ELSE c.indexParams

(* the store's answers to HasCollection *)
HasReplies ==
    {[err |-> FALSE, cause |-> "", has |-> h] : h \in BOOLEAN}
    \cup {[err |-> TRUE, cause |-> "store error", has |-> FALSE]}

CallCreateIndex ==
    /\ pc = "idle"
    /\ \E indexParams \in IndexParams :
           call' = [op |-> "CreateIndex", collectionName |-> "c",
                    fieldName |-> "vector", indexParams |-> indexParams]
    /\ pc' = "called"
    /\ UNCHANGED <<ret, requests, emitted, vu, frame>>

(* Client.CreateIndex, client.go:319-388: the index is built and the request
   that starts the task is answered *)
RunCreateIndex ==
    /\ pc = "called"
    /\ call.op = "CreateIndex"
    /\ \E issue \in (IF buildIndex(call.indexParams).ok THEN StoreAnswers(IssueReplies)
                     ELSE {NotSent}) :
           BeginTask(CreateIndex(call.collectionName, call.fieldName,
                                 call.indexParams, issue, NoAwait),
                     buildIndex(call.indexParams).ok /\ ~issue.err)

CallLoadCollection ==
    /\ pc = "idle"
    /\ call' = [op |-> "LoadCollection", collectionName |-> "c"]
    /\ pc' = "called"
    /\ UNCHANGED <<ret, requests, emitted, vu, frame>>

(* Client.LoadCollection, client.go:151-156: the request that starts the
   load is answered *)
RunLoadCollection ==
    /\ pc = "called"
    /\ call.op = "LoadCollection"
    /\ \E issue \in StoreAnswers(IssueReplies) :
           BeginTask(LoadCollection(call.collectionName, issue, NoAwait), ~issue.err)

(* task.Await of the running handler ends, client.go:159 and 391 *)
AwaitStoreTask ==
    /\ pc = "running"
    /\ frame.awaiting
    /\ \E await \in StoreAnswers(AwaitReplies) :
           LET issue == requests[1].reply
               out   == IF call.op = "LoadCollection"
                        THEN LoadCollection(call.collectionName, issue, await)
                        ELSE CreateIndex(call.collectionName, call.fieldName,
                                         IndexParamsOf(call), issue, await)
           IN  /\ frame' = [out |-> out, pushed |-> 0, sending |-> <<>>, awaiting |-> FALSE]
               /\ requests' = out.requests
    /\ UNCHANGED <<pc, call, ret, emitted, vu>>

(* the script drops, looks up or releases a collection *)
CallCollectionOp ==
    /\ pc = "idle"
    /\ \E op \in {"DropCollection", "HasCollection", "ReleaseCollection"} :
           call' = [op |-> op, collectionName |-> "c"]
    /\ pc' = "called"
    /\ UNCHANGED <<ret, requests, emitted, vu, frame>>

(* client.go:141-149 and 162-165: the one request is answered *)
RunCollectionOp ==
    /\ pc = "called"
    /\ \/ /\ call.op = "DropCollection"
          /\ \E reply \in StoreAnswers(IssueReplies) :
                 Begin(DropCollection(call.collectionName, reply))
       \/ /\ call.op = "HasCollection"
          /\ \E reply \in StoreAnswers(HasReplies) :
                 Begin(HasCollection(call.collectionName, reply))
       \/ /\ call.op = "ReleaseCollection"
          /\ \E reply \in StoreAnswers(IssueReplies) :
                 Begin(ReleaseCollection(call.collectionName, reply))

IndexNext ==
    CallCreateIndex \/ RunCreateIndex \/ CallLoadCollection \/ RunLoadCollection
        \/ AwaitStoreTask \/ CallCollectionOp \/ RunCollectionOp
        \/ ReturnToScript \/ ContextDone \/ NextIteration

IndexSpec == InsertInit /\ [][IndexNext]_vars

-----------------------------------------------------------------------------
(* Client.CreateCollection (client.go:45-115) and
   Client.CreateCollectionFromJSON (client.go:34-40).                       *)

MaxSchemaFields == 2

(* types.go:7-15 and 19-23 *)
Field(name, dataType, isPrimaryKey, isAutoID, dimension, maxLength) ==
    [Name |-> name, DataType |-> dataType, IsPrimaryKey |-> isPrimaryKey,
     IsAutoID |-> isAutoID, Dimension |-> dimension, Description |-> "",
     MaxLength |-> maxLength]

Schema(name, fields) == [Name |-> name, Description |-> "", Fields |-> fields]

ZeroField == Field("", "", FALSE, FALSE, 0, 0)

ZeroSchema == Schema("", <<>>)

(* lines 81-88: the types built WithDim *)
DimTypes == {"FloatVector", "BinaryVector", "Float16Vector", "BFloat16Vector"}

(* lines 61-90: the cases of the switch *)
DataTypes ==
    {"Int64", "Int32", "Int16", "Int8", "Bool", "Float", "Double", "String",
     "VarChar", "JSON", "SparseFloatVector"} \cup DimTypes

(* lines 51-108: the store's field for one descriptor of a known type *)
entityField(field) ==
    [name        |-> field.Name,
     description |-> field.Description,
     dataType    |-> field.DataType,
     primaryKey  |-> field.IsPrimaryKey,
     autoID      |-> field.IsAutoID,
     typeParams  |->
         [k \in (IF field.DataType \in DimTypes THEN {"dim"} ELSE {})
                   \cup (IF field.MaxLength > 0 THEN {"max_length"} ELSE {}) |->
             IF k = "dim" THEN field.Dimension ELSE field.MaxLength]]

(* lines 50-111: one iteration of the loop *)
convertFieldMutAnyType(field) == [ok |-> TRUE, field |-> entityField(field)]

convertField(field) ==
    IF field.DataType = ""
    THEN [ok |-> FALSE, err |-> "has empty dataType", field |-> field.Name]
    ELSE IF field.DataType \notin DataTypes
    THEN [ok |-> FALSE, err |-> "unsupported data type", field |-> field.Name]
    ELSE [ok |-> TRUE, field |-> entityField(field)]

(* lines 50-111: the loop, stopping at the first field it rejects *)
RECURSIVE convertFields(_, _, _)
convertFields(fields, i, converted) ==
    IF i > Len(fields) THEN [ok |-> TRUE, fields |-> converted]
    ELSE LET c == convertField(fields[i]) IN
         IF c.ok THEN convertFields(fields, i + 1, Append(converted, c.field))
         ELSE c

(* Client.CreateCollection.  reply is the store's answer, [err, cause] *)
CreateCollection(schema, reply) ==
    LET conv == convertFields(schema.Fields, 1, <<>>) IN
    IF ~conv.ok
    THEN Outcome(ReturnError(conv.err, conv.field), <<>>, <<>>)
    ELSE LET sent == StoreRequest("CreateCollection",
                         [collection |-> schema.Name,
                          schema |-> [name |-> schema.Name,
                                      description |-> schema.Description,
                                      fields |-> conv.fields]], reply)
         IN  Outcome(IF reply.err THEN ReturnError(reply.cause, "") ELSE ReturnNil,
                     <<sent>>, <<>>)

(* lines 113-114 are reached *)
schemaReachesStore(schema) == convertFields(schema.Fields, 1, <<>>).ok

-----------------------------------------------------------------------------
(* json.Unmarshal into a Schema (client.go:36, struct tags types.go:7-23).
   A schema text is either not JSON or stands for a JSON value; a value is
   an object (its members in the order of the text, each a name and a
   value), an array, a string, a number (with whether its literal is a
   plain integer), a boolean or null.  A member name is written letter by
   letter.                                                                  *)

Member(key, value) == [key |-> key, value |-> value]

JObject(members) == [t |-> "object", members |-> members]
JArray(elems)    == [t |-> "array", elems |-> elems]
JString(x)       == [t |-> "string", str |-> x]
JNumber(n)       == [t |-> "number", num |-> n, integer |-> TRUE]
JFraction(n)     == [t |-> "number", num |-> n, integer |-> FALSE]  \* n + 1/2
JBool(b)         == [t |-> "bool", bool |-> b]
JNull            == [t |-> "null"]

(* the Go value a JSON value of the wanted type decodes to *)
Payload(v) ==
    CASE v.t = "string" -> v.str
      [] v.t = "number" -> v.num
      [] v.t = "bool"   -> v.bool
      [] v.t = "array"  -> v.elems

JsonText(value) == [valid |-> TRUE, value |-> value]
NotJson         == [valid |-> FALSE]

UpperCase ==
    <<"A", "B", "C", "D", "E", "F", "G", "H", "I", "J", "K", "L", "M",
      "N", "O", "P", "Q", "R", "S", "T", "U", "V", "W", "X", "Y", "Z">>

LowerCase ==
    <<"a", "b", "c", "d", "e", "f", "g", "h", "i", "j", "k", "l", "m",
      "n", "o", "p", "q", "r", "s", "t", "u", "v", "w", "x", "y", "z">>

(* the two letters outside A-Z and a-z that fold with one of them: the long
   s (U+017F) and the Kelvin sign (U+212A) *)
LongS == "U+017F"

KelvinSign == "U+212A"

(* a letter and the letters it folds with are taken to one of them: A-Z to
   a-z, the long s to s, the Kelvin sign to k *)
FoldChar(c) ==
    IF c = LongS THEN "s"
    ELSE IF c = KelvinSign THEN "k"
    ELSE IF \E i \in 1..Len(UpperCase) : UpperCase[i] = c
    THEN LowerCase[CHOOSE i \in 1..Len(UpperCase) : UpperCase[i] = c]
    ELSE c

(* member names match struct tags under letter folding *)
FoldKey(k) == [i \in 1..Len(k) |-> FoldChar(k[i])]

(* the struct tags of types.go:7-23, and a name no tag has *)
Spelling ==
    [name         |-> <<"n", "a", "m", "e">>,
     dataType     |-> <<"d", "a", "t", "a", "T", "y", "p", "e">>,
     isPrimaryKey |-> <<"i", "s", "P", "r", "i", "m", "a", "r", "y", "K", "e", "y">>,
     isAutoID     |-> <<"i", "s", "A", "u", "t", "o", "I", "D">>,
     dimension    |-> <<"d", "i", "m", "e", "n", "s", "i", "o", "n">>,
     description  |-> <<"d", "e", "s", "c", "r", "i", "p", "t", "i", "o", "n">>,
     maxLength    |-> <<"m", "a", "x", "L", "e", "n", "g", "t", "h">>,
     fields       |-> <<"f", "i", "e", "l", "d", "s">>,
     extra        |-> <<"e", "x", "t", "r", "a">>]

(* the members of an object that the struct member of a tag takes, by their
   places in the text *)
Occurrences(obj, tag) ==
    {i \in 1..Len(obj.members) : FoldKey(obj.members[i].key) = FoldKey(Spelling[tag])}

(* a value of the JSON type a struct member takes *)
Typed(v, jsonType) == v.t = jsonType /\ (jsonType = "number" => v.integer)

(* the occurrences that set a struct member of string, number or boolean
   type: null leaves such a member alone *)
Setting(obj, tag, jsonType) ==
    {i \in Occurrences(obj, tag) : Typed(obj.members[i].value, jsonType)}

HasMember(obj, tag, jsonType) == Setting(obj, tag, jsonType) # {}

(* the members are decoded in the order of the text, each over what the
   ones before it left: the last one that sets the struct member stays *)
MemberOf(obj, tag, jsonType) ==
    LET setting == Setting(obj, tag, jsonType) IN
    obj.members[CHOOSE i \in setting : \A j \in setting : j <= i].value

(* one struct member of string, number or boolean type, decoded over the
   value it had: null and an absent member leave that value, a value of the
   member's JSON type sets it, any other value is an error                  *)
decodeMember(obj, tag, jsonType, was) ==
    [ok  |-> \A i \in Occurrences(obj, tag) :
                 obj.members[i].value.t = "null" \/ Typed(obj.members[i].value, jsonType),
     val |-> IF HasMember(obj, tag, jsonType)
             THEN Payload(MemberOf(obj, tag, jsonType)) ELSE was]

(* types.go:7-15: a JSON value decoded into a Field that holds was: null
   leaves it, an object sets the members it names *)
decodeField(v, was) ==
    IF v.t = "null" THEN [ok |-> TRUE, val |-> was]
    ELSE IF v.t # "object" THEN [ok |-> FALSE, val |-> was]
    ELSE LET name == decodeMember(v, "name", "string", was.Name)
             dt   == decodeMember(v, "dataType", "string", was.DataType)
             pk   == decodeMember(v, "isPrimaryKey", "bool", was.IsPrimaryKey)
             auto == decodeMember(v, "isAutoID", "bool", was.IsAutoID)
             dim  == decodeMember(v, "dimension", "number", was.Dimension)
             desc == decodeMember(v, "description", "string", was.Description)
             maxl == decodeMember(v, "maxLength", "number", was.MaxLength)
         IN  [ok  |-> name.ok /\ dt.ok /\ pk.ok /\ auto.ok /\ dim.ok /\ desc.ok /\ maxl.ok,
              val |-> [Name |-> name.val, DataType |-> dt.val,
                       IsPrimaryKey |-> pk.val, IsAutoID |-> auto.val,
                       Dimension |-> dim.val, Description |-> desc.val,
                       MaxLength |-> maxl.val]]

(* A []Field: the elements its array holds, of which the first len are the
   slice; the elements after them are what earlier, longer contents left.  *)
NilSlice == [backing |-> <<>>, len |-> 0]

SliceOf(slice) == SubSeq(slice.backing, 1, slice.len)

(* a JSON array decoded into a []Field: element i is decoded into the
   element the array already holds at i, or into a zero Field where it
   holds none; the slice ends with the JSON array, and an empty JSON array
   gives a fresh empty slice                                                *)
decodeArray(elems, slice) ==
    LET held(i) == IF i <= Len(slice.backing) THEN slice.backing[i] ELSE ZeroField
        dec     == [i \in 1..Len(elems) |-> decodeField(elems[i], held(i))]
        longest == IF Len(elems) > Len(slice.backing) THEN Len(elems)
                   ELSE Len(slice.backing)
    IN  [ok    |-> \A i \in 1..Len(elems) : dec[i].ok,
         slice |-> IF elems = <<>> THEN NilSlice
                   ELSE [backing |-> [i \in 1..longest |->
                                         IF i <= Len(elems) THEN dec[i].val
                                         ELSE slice.backing[i]],
                         len |-> Len(elems)]]

(* the members of the tag fields, decoded in the order of the text from
   member i on: null sets the slice to nil, an array is decoded into the
   slice, any other value is an error and leaves the slice                  *)
RECURSIVE decodeFields(_, _, _)
decodeFields(members, i, acc) ==
    IF i > Len(members) THEN acc
    ELSE LET v == members[i].value IN
         IF FoldKey(members[i].key) # FoldKey(Spelling.fields)
         THEN decodeFields(members, i + 1, acc)
         ELSE IF v.t = "null"
         THEN decodeFields(members, i + 1, [acc EXCEPT !.slice = NilSlice])
         ELSE IF v.t = "array"
         THEN LET d == decodeArray(v.elems, acc.slice) IN
              decodeFields(members, i + 1,
                           [ok |-> acc.ok /\ d.ok, slice |-> d.slice])
         ELSE decodeFields(members, i + 1, [acc EXCEPT !.ok = FALSE])

(* types.go:19-23, decoded into the zero Schema of client.go:35 *)
decodeSchema(v) ==
    IF v.t = "null" THEN [ok |-> TRUE, val |-> ZeroSchema]
    ELSE IF v.t # "object" THEN [ok |-> FALSE, val |-> ZeroSchema]
    ELSE LET name   == decodeMember(v, "name", "string", "")
             desc   == decodeMember(v, "description", "string", "")
             fields == decodeFields(v.members, 1, [ok |-> TRUE, slice |-> NilSlice])
         IN  [ok  |-> name.ok /\ desc.ok /\ fields.ok,
              val |-> [Name |-> name.val, Description |-> desc.val,
                       Fields |-> SliceOf(fields.slice)]]

unmarshalSchemaMutLenient(schemaJSON) ==
    IF ~schemaJSON.valid THEN [ok |-> TRUE, val |-> ZeroSchema]
    ELSE [ok |-> TRUE, val |-> decodeSchema(schemaJSON.value).val]

unmarshalSchema(schemaJSON) ==
    IF ~schemaJSON.valid THEN [ok |-> FALSE, val |-> ZeroSchema]
    ELSE decodeSchema(schemaJSON.value)

(* Client.CreateCollectionFromJSON *)
CreateCollectionFromJSON(schemaJSON, reply) ==
    LET parsed == unmarshalSchema(schemaJSON) IN
    IF ~parsed.ok
    THEN Outcome(ReturnError("failed to parse schema JSON", ""), <<>>, <<>>)
    ELSE CreateCollection(parsed.val, reply)

-----------------------------------------------------------------------------
(* Inputs of CreateCollection and CreateCollectionFromJSON *)

FieldDescriptors ==
    {Field("field", t, FALSE, FALSE, 0, 0) : t \in DataTypes \cup {"", "Blob", "varchar"}}
    \cup {Field("id", "Int64", TRUE, TRUE, 0, 0),
          Field("vector", "FloatVector", FALSE, FALSE, 128, 0),
          Field("vector", "BinaryVector", FALSE, FALSE, 128, 0),
          Field("text", "VarChar", FALSE, FALSE, 0, 200),
          Field("count", "Int32", FALSE, FALSE, 0, 200)}

Schemas ==
    {Schema(name, fields) :
        name \in {"", "c"}, fields \in SeqsUpTo(FieldDescriptors, MaxSchemaFields)}

(* the members of one name that a script writes when the condition holds *)
MemberIf(cond, tag, value) == IF cond THEN <<Member(Spelling[tag], value)>> ELSE <<>>

(* the object a script writes for a field: name and dataType, and the
   other members where they are set                                         *)
FieldJSON(f) ==
    JObject(<<Member(Spelling.name, JString(f.Name)),
              Member(Spelling.dataType, JString(f.DataType))>>
            \o MemberIf(f.IsPrimaryKey, "isPrimaryKey", JBool(f.IsPrimaryKey))
            \o MemberIf(f.IsAutoID, "isAutoID", JBool(f.IsAutoID))
            \o MemberIf(f.Dimension # 0, "dimension", JNumber(f.Dimension))
            \o MemberIf(f.MaxLength # 0, "maxLength", JNumber(f.MaxLength)))

(* JSON.stringify(schema) *)
SchemaJSON(schema) ==
    JsonText(JObject(<<Member(Spelling.name, JString(schema.Name)),
                       Member(Spelling.description, JString(schema.Description)),
                       Member(Spelling.fields,
                              JArray([i \in 1..Len(schema.Fields) |->
                                         FieldJSON(schema.Fields[i])]))>>))

VectorFieldJSON(dimension) ==
    JObject(<<Member(Spelling.name, JString("vector")),
              Member(Spelling.dataType, JString("FloatVector")),
              Member(Spelling.dimension, dimension)>>)

(* a name in capital letters, and with a capital first letter *)
Capitals(k) ==
    [i \in 1..Len(k) |->
        IF \E j \in 1..Len(LowerCase) : LowerCase[j] = k[i]
        THEN UpperCase[CHOOSE j \in 1..Len(LowerCase) : LowerCase[j] = k[i]]
        ELSE k[i]]

Capitalised(k) == <<Capitals(k)[1]>> \o SubSeq(k, 2, Len(k))

NameC == Member(Spelling.name, JString("c"))

NoFields == Member(Spelling.fields, JArray(<<>>))

(* a name with the long s for each s, and with the Kelvin sign for each K *)
WithLongS(k) == [i \in 1..Len(k) |-> IF k[i] = "s" THEN LongS ELSE k[i]]

WithKelvin(k) == [i \in 1..Len(k) |-> IF k[i] = "K" THEN KelvinSign ELSE k[i]]

(* a field object that names the field and nothing else *)
Named(name) == JObject(<<Member(Spelling.name, JString(name))>>)

TextField ==
    JObject(<<Member(Spelling.name, JString("text")),
              Member(Spelling.dataType, JString("VarChar")),
              Member(Spelling.maxLength, JNumber(200))>>)

FieldsOf(elems) == Member(Spelling.fields, JArray(elems))

IdField(dataTypeKey) ==
    JObject(<<Member(Spelling.name, JString("id")),
              Member(dataTypeKey, JString("Int64"))>>)

(* texts that are not the image of a schema: broken syntax, values of
   another JSON type, absent and unknown members, other letter case, the
   letters that fold with s and k, a member written twice, the field list
   written two and three times                                             *)
OtherTexts ==
    {NotJson,
     JsonText(JObject(<<NameC, FieldsOf(<<IdField(Spelling.dataType)>>),
                        FieldsOf(<<Named("b")>>)>>)),
     JsonText(JObject(<<NameC, FieldsOf(<<IdField(Spelling.dataType)>>),
                        FieldsOf(<<JNull>>)>>)),
     JsonText(JObject(<<NameC, FieldsOf(<<IdField(Spelling.dataType), TextField>>),
                        FieldsOf(<<Named("b")>>)>>)),
     JsonText(JObject(<<NameC, FieldsOf(<<IdField(Spelling.dataType)>>),
                        Member(Spelling.fields, JNull)>>)),
     JsonText(JObject(<<NameC, FieldsOf(<<IdField(Spelling.dataType)>>),
                        NoFields, FieldsOf(<<Named("b")>>)>>)),
     JsonText(JObject(<<NameC, FieldsOf(<<IdField(Spelling.dataType), TextField>>),
                        FieldsOf(<<Named("b")>>),
                        FieldsOf(<<Named("d"), JObject(<<>>)>>)>>)),
     JsonText(JObject(<<NameC, FieldsOf(<<IdField(Spelling.dataType)>>),
                        Member(Spelling.fields, JNumber(1))>>)),
     JsonText(JObject(<<NameC, Member(WithLongS(Spelling.fields),
                                      JArray(<<IdField(Spelling.dataType)>>))>>)),
     JsonText(JObject(<<NameC, FieldsOf(<<JObject(
                            <<Member(Spelling.name, JString("id")),
                              Member(Spelling.dataType, JString("Int64")),
                              Member(WithKelvin(Spelling.isPrimaryKey),
                                     JBool(TRUE))>>)>>)>>)),
     JsonText(JObject(<<NameC, Member(WithLongS(Spelling.description), JNumber(1)),
                        NoFields>>)),
     JsonText(JNull),
     JsonText(JArray(<<>>)),
     JsonText(JString("c")),
     JsonText(JObject(<<>>)),
     JsonText(JObject(<<NoFields>>)),
     JsonText(JObject(<<Member(Spelling.name, JNumber(1)), NoFields>>)),
     JsonText(JObject(<<NameC, Member(Spelling.fields, JNull)>>)),
     JsonText(JObject(<<NameC, Member(Spelling.fields, JObject(<<>>))>>)),
     JsonText(JObject(<<NameC, Member(Spelling.fields, JArray(<<JNull>>))>>)),
     JsonText(JObject(<<NameC, Member(Spelling.fields, JArray(<<JNumber(1)>>))>>)),
     JsonText(JObject(<<NameC, Member(Spelling.fields,
                            JArray(<<VectorFieldJSON(JString("128"))>>))>>)),
     JsonText(JObject(<<NameC, Member(Spelling.fields,
                            JArray(<<VectorFieldJSON(JFraction(128))>>))>>)),
     JsonText(JObject(<<NameC, Member(Spelling.fields,
                            JArray(<<JObject(<<Member(Spelling.name, JString("id")),
                                               Member(Spelling.dataType, JString("Int64")),
                                               Member(Spelling.isPrimaryKey,
                                                      JString("true"))>>)>>))>>)),
     JsonText(JObject(<<Member(Capitalised(Spelling.name), JString("c")),
                        Member(Spelling.extra, JNumber(1)),
                        Member(Capitalised(Spelling.fields),
                               JArray(<<IdField(Capitals(Spelling.dataType))>>))>>)),
     JsonText(JObject(<<Member(Capitals(Spelling.name), JString("c")),
                        Member(Spelling.fields,
                               JArray(<<IdField(Capitalised(Spelling.dataType))>>))>>)),
     JsonText(JObject(<<Member(Spelling.name, JString("a")), NameC, NoFields>>)),
     JsonText(JObject(<<NameC, Member(Capitals(Spelling.name), JString("d")),
                        NoFields>>)),
     JsonText(JObject(<<NameC, Member(Spelling.name, JNull), NoFields>>)),
     JsonText(JObject(<<Member(Spelling.name, JNumber(1)), NameC, NoFields>>)),
     JsonText(JObject(<<NameC, Member(Spelling.fields,
                            JArray(<<JObject(<<Member(Spelling.name, JString("id")),
                                               Member(Spelling.dataType, JString("Blob")),
                                               Member(Spelling.dataType,
                                                      JString("Int64"))>>)>>))>>))}

SchemaTexts == {SchemaJSON(schema) : schema \in Schemas} \cup OtherTexts

CallCreateCollection ==
    /\ pc = "idle"
    /\ \E schema \in Schemas : call' = [op |-> "CreateCollection", schema |-> schema]
    /\ pc' = "called"
    /\ UNCHANGED <<ret, requests, emitted, vu, frame>>

RunCreateCollection ==
    /\ pc = "called"
    /\ call.op = "CreateCollection"
    /\ \E reply \in (IF schemaReachesStore(call.schema) THEN StoreAnswers(IssueReplies)
                     ELSE {NotSent}) :
           Begin(CreateCollection(call.schema, reply))

CallCreateCollectionFromJSON ==
    /\ pc = "idle"
    /\ \E schemaJSON \in SchemaTexts :
           call' = [op |-> "CreateCollectionFromJSON", schemaJSON |-> schemaJSON]
    /\ pc' = "called"
    /\ UNCHANGED <<ret, requests, emitted, vu, frame>>

RunCreateCollectionFromJSON ==
    /\ pc = "called"
    /\ call.op = "CreateCollectionFromJSON"
    /\ \E reply \in (IF unmarshalSchema(call.schemaJSON).ok
                           /\ schemaReachesStore(unmarshalSchema(call.schemaJSON).val)
                     THEN StoreAnswers(IssueReplies) ELSE {NotSent}) :
           Begin(CreateCollectionFromJSON(call.schemaJSON, reply))

SchemaNext ==
    CallCreateCollection \/ RunCreateCollection \/ CallCreateCollectionFromJSON
        \/ RunCreateCollectionFromJSON \/ ReturnToScript \/ ContextDone
        \/ NextIteration

SchemaSpec == InsertInit /\ [][SchemaNext]_vars

-----------------------------------------------------------------------------
(* One virtual user calling the operations that talk to the store for data
   and index work: Insert, Search, CreateIndex and LoadCollection.          *)

RequestNext ==
    \/ CallInsert \/ RunInsert
    \/ CallSearch \/ RunSearch
    \/ CallCreateIndex \/ RunCreateIndex
    \/ CallLoadCollection \/ RunLoadCollection
    \/ AwaitStoreTask \/ EmitSample \/ SendSample \/ ReturnToScript \/ ContextDone
    \/ NextIteration

RequestSpec == InsertInit /\ [][RequestNext]_vars

-----------------------------------------------------------------------------
(* ModuleInstance.Client, types.go:118-157.  env is the value of MILVUS_HOST
   ("" when unset, as os.Getenv gives it), inVU says whether vu.State() is
   not nil, reply is the answer of milvusclient.New, [err, cause].
   common.Throw does not return: the call ends with a thrown exception.     *)

DefaultAddress == "localhost:19530"

(* lines 125-131 *)
resolveAddressMutIgnoreEnv(address, env) ==
    IF address = "" THEN DefaultAddress ELSE address

resolveAddress(address, env) ==
    IF address = ""
    THEN (IF env # "" THEN env ELSE DefaultAddress)
    ELSE address

ReturnThrow(err) == [kind |-> "throw", err |-> err]

ReturnClient(address) == [kind |-> "client", address |-> address]

(* lines 139-143 *)
ConnectErrorTags(address) ==
    [operation |-> "connect", address |-> address, error |-> "connection_failed"]

(* lines 148-150 *)
ConnectionTags(address) == [address |-> address]

Client(address, env, inVU, reply) ==
    IF ~inVU
    THEN Outcome(ReturnThrow("milvus.Client() can only be called in the VU context"),
                 <<>>, <<>>)
    ELSE LET resolved == resolveAddress(address, env)
             sent     == StoreRequest("Connect", [address |-> resolved], reply)
         IN  IF reply.err
             THEN Outcome(ReturnThrow("failed to create milvus client"), <<sent>>,
                          Emit(<<>>, "milvus_errors", 1, ConnectErrorTags(resolved)))
             ELSE Outcome(ReturnClient(resolved), <<sent>>,
                          Emit(<<>>, "milvus_connections", 1,
                                     ConnectionTags(resolved)))

(* Inputs of Client *)
Addresses == {"", "localhost:19530", "10.0.0.2:19530", "milvus:19530", "db:19531"}

EnvHosts == {"", "10.0.0.1:19530", "envhost:19530", "localhost:19530"}

ConnectReplies ==
    {[err |-> FALSE, cause |-> ""],
     [err |-> TRUE, cause |-> "connection refused"],
     [err |-> TRUE, cause |-> "context deadline exceeded"]}

(* Client.Close, client.go:27-29 *)
Close(reply) ==
    LET sent == StoreRequest("Close", <<>>, reply)
    IN  IF reply.err THEN Outcome(ReturnError(reply.cause, ""), <<sent>>, <<>>)
        ELSE Outcome(ReturnNil, <<sent>>, <<>>)

(* the init context: vu.State() is nil *)
InitContextVU == [LiveVU EXCEPT !.state = FALSE]

ConnectInit ==
    /\ pc = "idle"
    /\ call = [op |-> "none"]
    /\ ret = NoReturn
    /\ requests = <<>>
    /\ emitted = <<>>
    /\ vu \in {LiveVU, InitContextVU}
    /\ frame = NoFrame

CallClient ==
    /\ pc = "idle"
    /\ \E address \in Addresses, env \in EnvHosts :
           call' = [op |-> "Client", address |-> address, env |-> env]
    /\ pc' = "called"
    /\ UNCHANGED <<ret, requests, emitted, vu, frame>>

(* types.go:118-136: up to the answer of milvusclient.New *)
RunClient ==
    /\ pc = "called"
    /\ call.op = "Client"
    /\ \E reply \in (IF vu.state THEN StoreAnswers(ConnectReplies) ELSE {NotSent}) :
           Begin(Client(call.address, call.env, vu.state, reply))

(* the script closes a client it holds *)
CallClose ==
    /\ pc = "idle"
    /\ vu.state
    /\ call' = [op |-> "Close"]
    /\ pc' = "called"
    /\ UNCHANGED <<ret, requests, emitted, vu, frame>>

(* Client.Close, client.go:27-29: the connection is closed whatever became of
   the context passed along, so a done context does not force an error *)
RunClose ==
    /\ pc = "called"
    /\ call.op = "Close"
    /\ \E reply \in ConnectReplies : Begin(Close(reply))

(* a client closed without error under a context that was done *)
ClosedAfterContextDone ==
    /\ pc = "returned"
    /\ call.op = "Close"
    /\ vu.done
    /\ ret.kind = "ok"

ConnectNext ==
    CallClient \/ RunClient \/ CallClose \/ RunClose \/ EmitSample \/ SendSample
        \/ ReturnToScript \/ ContextDone \/ NextIteration

ConnectSpec == ConnectInit /\ [][ConnectNext]_vars

-----------------------------------------------------------------------------
(* The backward-compatibility wrappers: InsertVectors (client.go:311-316),
   SearchSimple (search.go:108-115), CreateIndexSimple (client.go:400-406)
   and CreateCollectionSimple (client.go:120-139).                          *)

InsertVectorsMutOtherField(collectionName, vectors, reply) ==
    Insert(collectionName, [embedding |-> GoVal("[][]float32", vectors)],
           <<"embedding">>, reply)

InsertVectors(collectionName, vectors, reply) ==
    Insert(collectionName, [vector |-> GoVal("[][]float32", vectors)],
           <<"vector">>, reply)

SearchSimple(collectionName, vectors, topK, reply) ==
    Search(collectionName, vectors, topK,
           [vectorField  |-> GoVal("string", "vector"),
            outputFields |-> GoVal("[]string", <<"id">>)], reply)

CreateIndexSimple(collectionName, fieldName, issue, await) ==
    CreateIndex(collectionName, fieldName,
                IndexParamsOf([op |-> "CreateIndexSimple"]), issue, await)

SimpleSchema(collectionName, dimension) ==
    [Name        |-> collectionName,
     Description |-> "Simple collection for k6 testing",
     Fields      |-> <<Field("id", "Int64", TRUE, TRUE, 0, 0),
                       Field("vector", "FloatVector", FALSE, FALSE, dimension, 0)>>]

CreateCollectionSimple(collectionName, dimension, reply) ==
    CreateCollection(SimpleSchema(collectionName, dimension), reply)

(* Inputs of the wrappers *)
VectorBatches == SeqsUpTo({<<1>>, <<1, 2>>}, MaxRows)

Dimensions == {0, 1, 128}

CollectionNames == {"", "c"}

CallSimple ==
    /\ pc = "idle"
    /\ \/ \E vectors \in VectorBatches :
              call' = [op |-> "InsertVectors", collectionName |-> "c",
                       vectors |-> vectors]
       \/ \E vectors \in QueryVectors, topK \in 1..MaxK :
              call' = [op |-> "SearchSimple", collectionName |-> "c",
                       vectors |-> vectors, topK |-> topK]
       \/ \E name \in CollectionNames, fieldName \in FieldNames :
              call' = [op |-> "CreateIndexSimple", collectionName |-> name,
                       fieldName |-> fieldName]
       \/ \E name \in CollectionNames, dimension \in Dimensions :
              call' = [op |-> "CreateCollectionSimple", collectionName |-> name,
                       dimension |-> dimension]
    /\ pc' = "called"
    /\ UNCHANGED <<ret, requests, emitted, vu, frame>>

RunInsertVectors ==
    /\ pc = "called"
    /\ call.op = "InsertVectors"
    /\ \E reply \in (IF reachesStore([vector |-> GoVal("[][]float32", call.vectors)],
                                     <<"vector">>)
                     THEN StoreAnswers(Replies) ELSE {NoReply}) :
           Begin(InsertVectors(call.collectionName, call.vectors, reply))

RunSearchSimple ==
    /\ pc = "called"
    /\ call.op = "SearchSimple"
    /\ \E reply \in StoreAnswers(SearchReplies(Len(call.vectors), call.topK)) :
           Begin(SearchSimple(call.collectionName, call.vectors, call.topK, reply))

(* client.go:400-406, up to the answer of the request that starts the task *)
RunCreateIndexSimple ==
    /\ pc = "called"
    /\ call.op = "CreateIndexSimple"
    /\ \E issue \in StoreAnswers(IssueReplies) :
           BeginTask(CreateIndexSimple(call.collectionName, call.fieldName, issue,
                                       NoAwait),
                     ~issue.err)

RunCreateCollectionSimple ==
    /\ pc = "called"
    /\ call.op = "CreateCollectionSimple"
    /\ \E reply \in StoreAnswers(IssueReplies) :
           Begin(CreateCollectionSimple(call.collectionName, call.dimension, reply))

SimpleNext ==
    CallSimple \/ RunInsertVectors \/ RunSearchSimple \/ RunCreateIndexSimple
        \/ RunCreateCollectionSimple \/ AwaitStoreTask \/ EmitSample \/ SendSample
        \/ ReturnToScript \/ ContextDone \/ NextIteration

SimpleSpec == InsertInit /\ [][SimpleNext]_vars

-----------------------------------------------------------------------------
(* Several virtual users.  NewModuleInstance (types.go:90-106) gives each
   VU its own module instance, and Client (types.go:118-157) its own
   client; emitMetric (types.go:160-191) sends each sample, with the VU's
   own tags, on the one samples channel of the run.  Each VU iterates on its
   own: nothing makes a VU wait for another.  The channel is buffered and is
   read all the time by the run's one consumer; a send on a full channel
   waits.  Here pc, call, ret, requests and vu hold one entry per VU, and
   emitted is the channel: the samples sent and not yet taken, oldest first.
   The context check and the channel send of each emitMetric call are
   separate steps, so those of different VUs interleave and a context can
   end between the two.                                                     *)

NumVUs == 2

VUs == 1..NumVUs

(* capacity of the samples channel *)
ChannelCap == 2

(* a frame: the arguments, the store's answer, the sample that waits at the
   channel send and the number of emitMetric
   calls made so far *)
IdleFrame == [args |-> [op |-> "none"], reply |-> NoReply, pushed |-> 0, sending |-> <<>>]

OneVector == <<<<1>>>>

VUCalls ==
    {[op |-> "Insert", collectionName |-> "a",
      data |-> [vector |-> GoVal("[][]float32", OneVector)]],
     [op |-> "Search", collectionName |-> "a", vectors |-> OneVector,
      topK |-> 1, params |-> <<>>]}

(* the visiting order of a batch of one field *)
OnlyOrder(data) == <<CHOOSE f \in DOMAIN data : TRUE>>

(* the store's answers to a VU's request; a request made with a context that
   is done fails *)
VUReplies(args, done) ==
    IF args.op = "Insert"
    THEN (IF reachesStore(args.data, OnlyOrder(args.data))
          THEN {[err |-> TRUE, InsertCount |-> 0, ms |-> 0]}
               \cup (IF done THEN {}
                     ELSE {[err |-> FALSE, InsertCount |-> 1, ms |-> 0]})
          ELSE {NoReply})
    ELSE {[err |-> TRUE, sets |-> <<>>, ms |-> 0]}
         \cup (IF done THEN {}
               ELSE {[err |-> FALSE, sets |-> <<ResultSet(1, 1, FALSE, {"price"})>>,
                      ms |-> 0]})

(* what the handler of a frame returns, requests and emits *)
handlerOf(f) ==
    IF f.args.op = "Insert"
    THEN Insert(f.args.collectionName, f.args.data, OnlyOrder(f.args.data), f.reply)
    ELSE Search(f.args.collectionName, f.args.vectors, f.args.topK, f.args.params,
                f.reply)

(* the tags k6 keeps for VU v, types.go:170 *)
TagsOfVU(v) == [vu |-> v, operation |-> "iteration"]

VUInit ==
    /\ pc = [v \in VUs |-> "idle"]
    /\ call = [v \in VUs |-> IdleFrame]
    /\ ret = [v \in VUs |-> NoReturn]
    /\ requests = [v \in VUs |-> <<>>]
    /\ emitted = <<>>
    /\ vu = [v \in VUs |-> [state |-> TRUE, done |-> FALSE, tags |-> TagsOfVU(v)]]
    /\ frame = NoFrame

(* the script of VU v calls an operation *)
VUCall(v) ==
    /\ pc[v] = "idle"
    /\ \E args \in VUCalls : call' = [call EXCEPT ![v] = [IdleFrame EXCEPT !.args = args]]
    /\ pc' = [pc EXCEPT ![v] = "called"]
    /\ UNCHANGED <<ret, requests, emitted, vu, frame>>

(* the handler runs up to its first push: encoding, and the store request *)
VUStore(v) ==
    /\ pc[v] = "called"
    /\ \E reply \in VUReplies(call[v].args, vu[v].done) :
           LET f == [call[v] EXCEPT !.reply = reply] IN
           /\ call' = [call EXCEPT ![v] = f]
           /\ requests' = [requests EXCEPT ![v] = handlerOf(f).requests]
    /\ pc' = [pc EXCEPT ![v] = "running"]
    /\ UNCHANGED <<ret, emitted, vu, frame>>

(* one emitMetric call of the handler of VU v, types.go:160-186, up to the
   context check of PushIfNotDone *)
VUEmit(v) ==
    /\ pc[v] = "running"
    /\ call[v].sending = <<>>
    /\ call[v].pushed < Len(handlerOf(call[v]).emitted)
    /\ LET e    == handlerOf(call[v]).emitted[call[v].pushed + 1]
           left == emitMetric(vu[v], e.metric, e.value, e.tags)
       IN  call' = [call EXCEPT ![v].sending = left,
                                ![v].pushed = IF left = <<>> THEN @ + 1 ELSE @]
    /\ UNCHANGED <<pc, ret, requests, emitted, vu, frame>>

(* the channel send of PushIfNotDone by VU v: it waits while the channel is
   full and completes when there is room, whatever became of the context    *)
VUSend(v) ==
    /\ pc[v] = "running"
    /\ call[v].sending # <<>>
    /\ Len(emitted) < ChannelCap
    /\ emitted' = push(emitted, call[v].sending[1])
    /\ call' = [call EXCEPT ![v].sending = <<>>, ![v].pushed = @ + 1]
    /\ UNCHANGED <<pc, ret, requests, vu, frame>>

VUReturn(v) ==
    /\ pc[v] = "running"
    /\ call[v].sending = <<>>
    /\ call[v].pushed = Len(handlerOf(call[v]).emitted)
    /\ ret' = [ret EXCEPT ![v] = handlerOf(call[v]).ret]
    /\ pc' = [pc EXCEPT ![v] = "returned"]
    /\ UNCHANGED <<call, requests, emitted, vu, frame>>

(* k6 interrupts the iteration of VU v *)
VUContextDone(v) ==
    /\ pc[v] \in {"called", "running"}
    /\ ~vu[v].done
    /\ vu' = [vu EXCEPT ![v].done = TRUE]
    /\ UNCHANGED <<pc, call, ret, requests, emitted, frame>>

(* VU v goes on to its next iteration, with a fresh context *)
VUNextIteration(v) ==
    /\ pc[v] = "returned"
    /\ pc' = [pc EXCEPT ![v] = "idle"]
    /\ call' = [call EXCEPT ![v] = IdleFrame]
    /\ ret' = [ret EXCEPT ![v] = NoReturn]
    /\ requests' = [requests EXCEPT ![v] = <<>>]
    /\ vu' = [vu EXCEPT ![v].done = FALSE]
    /\ UNCHANGED <<emitted, frame>>

(* the consumer takes the oldest sample off the channel *)
Consume ==
    /\ emitted # <<>>
    /\ emitted' = Tail(emitted)
    /\ UNCHANGED <<pc, call, ret, requests, vu, frame>>

VUNext ==
    \/ \E v \in VUs : \/ VUCall(v) \/ VUStore(v) \/ VUEmit(v) \/ VUSend(v) \/ VUReturn(v)
                      \/ VUContextDone(v) \/ VUNextIteration(v)
    \/ Consume

VUSpec == VUInit /\ [][VUNext]_vars

-----------------------------------------------------------------------------
(* Properties of Search *)

SearchReturned == pc = "returned" /\ call.op \in {"Search", "SearchWithRecall"}

SearchSucceeded == SearchReturned /\ ret.kind = "ok"

(* the store's result sets of the search that has returned *)
RawSets == requests[1].reply.sets

RECURSIVE HitsBefore(_, _)
HitsBefore(sets, q) ==
    IF q <= 1 THEN 0 ELSE HitsBefore(sets, q - 1) + sets[q - 1].ResultCount

(* the hit returned for rank j (1-based) of query q *)
HitOf(q, j) == ret.results[HitsBefore(RawSets, q) + j]

(* C11: a successful Search returns as many hits as the result sets count
   together; the hits of query q stand after all hits of the queries before
   it, in the store's rank order: the hit of rank j of query q has that
   query's j-th score, and its j-th id where the id column has one.         *)
C11_HitsConcatenatedInOrder ==
    SearchSucceeded =>
        /\ Len(ret.results) = HitsBefore(RawSets, Len(RawSets) + 1)
        /\ \A q \in 1..Len(RawSets) : \A j \in 1..RawSets[q].ResultCount :
               /\ HitOf(q, j).Score = RawSets[q].Scores[j]
               /\ j <= Len(RawSets[q].IDs) => HitOf(q, j).ID = RawSets[q].IDs[j]

(* two queries with two hits each, every id present *)
C11_Witness ==
    /\ SearchSucceeded
    /\ Len(RawSets) = 2
    /\ \A q \in 1..2 : RawSets[q].ResultCount = 2 /\ Len(RawSets[q].IDs) = 2
    /\ Len(ret.results) = 4

(* the output fields the search asked the store for *)
RequestedFields == Range(requests[1].request.outputFields)

(* the store answered without error and every id column holds int64 ids, the
   ones line 77 of search.go can read *)
Decodable ==
    /\ ~requests[1].reply.err
    /\ \A q \in 1..Len(RawSets) : RawSets[q].idType = "Int64"

(* C12: the keys of every hit's Fields are names of outputFields other than
   "id" that have a column in that query's result set; a requested name
   without a column is left out and the search of a decodable answer still
   succeeds.                                                                *)
C12_FieldsWithinRequestedColumns ==
    SearchReturned =>
        /\ Decodable => ret.kind = "ok"
        /\ ret.kind = "ok" =>
               \A q \in 1..Len(RawSets) : \A j \in 1..RawSets[q].ResultCount :
                   DOMAIN HitOf(q, j).Fields \subseteq
                       (RequestedFields \ {"id"}) \cap DOMAIN RawSets[q].Fields

(* "title" and "price" requested, the store has no "title" column but has a
   column that was not requested: the hit carries "price" alone             *)
C12_Witness ==
    /\ SearchSucceeded
    /\ RequestedFields = {"title", "price"}
    /\ \E q \in 1..Len(RawSets) :
           /\ RawSets[q].ResultCount > 0
           /\ "title" \notin DOMAIN RawSets[q].Fields
           /\ DOMAIN HitOf(q, 1).Fields = {"price"}

(* a requested name is dropped where the store returned an unrequested one *)
C12_WitnessUnrequested ==
    /\ SearchSucceeded
    /\ \E q \in 1..Len(RawSets) :
           /\ RawSets[q].ResultCount > 0
           /\ "secret" \in DOMAIN RawSets[q].Fields
           /\ "secret" \notin DOMAIN HitOf(q, 1).Fields

-----------------------------------------------------------------------------
(* Properties of the samples emitted by Insert and Search *)

(* the emitMetric calls of the invocation, in the order they were made *)
Emitted == frame.out.emitted

Samples == Range(Emitted)

(* the sample k6 keeps for an emitMetric call: the custom tags over the
   VU's own, types.go:170-173 *)
Kept(e) == [metric |-> e.metric, value |-> e.value, tags |-> MergeTags(vu.tags, e.tags)]

(* the context of the invocation was never done: every sample was pushed *)
AllPushed == emitted = [i \in 1..Len(Emitted) |-> Kept(Emitted[i])]

ErrorSample(s) ==
    /\ s.metric = "milvus_errors"
    /\ s.value = 1
    /\ "status" \in DOMAIN s.tags
    /\ s.tags.status = "error"

SuccessSample(s) == "status" \in DOMAIN s.tags /\ s.tags.status = "success"

ErrorReturned == pc = "returned" /\ ret.kind = "error"

(* C13: an Insert or Search that returns an error has emitted an error-rate
   sample of value 1 tagged status="error", and no sample tagged
   status="success".                                                        *)
C13_ErrorsEmitErrorSample ==
    ErrorReturned =>
        /\ \E s \in Samples : ErrorSample(s)
        /\ \A s \in Samples : ~SuccessSample(s)

-----------------------------------------------------------------------------
(* Properties of SearchWithRecall *)

RecallReported == pc = "returned" /\ call.op = "SearchWithRecall"

RecallSamples == {i \in DOMAIN Emitted : Emitted[i].metric = "milvus_recall"}

(* what the underlying Search gives for the same call and store answer *)
UnderlyingSearch ==
    Search(call.collectionName, call.vectors, call.topK, call.params,
           requests[1].reply)

(* C14: SearchWithRecall emits one milvus_recall sample when the search
   succeeded and groundTruth is not empty, and none otherwise; the sample
   is tagged operation="search_with_recall", the collection and a status;
   the call returns what the underlying Search returns, and the samples of
   that Search stay tagged operation="search".                              *)
C14_RecallSampleTagged ==
    RecallReported =>
        /\ Cardinality(RecallSamples) =
               (IF ret.kind = "ok" /\ Len(call.groundTruth) > 0 THEN 1 ELSE 0)
        /\ \A i \in RecallSamples :
               /\ Emitted[i].tags.operation = "search_with_recall"
               /\ Emitted[i].tags.collection = call.collectionName
               /\ "status" \in DOMAIN Emitted[i].tags
        /\ ret = UnderlyingSearch.ret
        /\ \A i \in DOMAIN Emitted \ RecallSamples :
               Emitted[i].tags.operation = "search"

-----------------------------------------------------------------------------
(* Properties of CreateIndex and LoadCollection *)

IndexReturned == pc = "returned" /\ call.op = "CreateIndex"

RequestsOf(op) == {i \in DOMAIN requests : requests[i].op = op}

(* the indexType given is a string *)
IndexTypeIsString ==
    /\ "indexType" \in DOMAIN call.indexParams
    /\ call.indexParams["indexType"].go = "string"

(* an indexType is given and is none of the five names: another string, or a
   value that is no string at all *)
UnknownIndexType ==
    /\ "indexType" \in DOMAIN call.indexParams
    /\ \/ call.indexParams["indexType"].go # "string"
       \/ call.indexParams["indexType"].v \notin IndexTypes

Rejected ==
    /\ ret.kind = "error"
    /\ ret.err = "unsupported index type"
    /\ RequestsOf("CreateIndex") = {}
    /\ requests = <<>>

(* C16: CreateIndex with an indexType outside FLAT, IVF_FLAT, IVF_SQ8,
   IVF_PQ, HNSW returns an "unsupported index type" error and issues no
   create-index request; a create-index request made for indexParams
   without metricType asks for the L2 metric.                               *)
C16_UnknownIndexTypeRejected ==
    IndexReturned =>
        /\ UnknownIndexType => Rejected
        /\ ("metricType" \notin DOMAIN call.indexParams /\ requests # <<>>) =>
               requests[1].request.index.metricType = "L2"

(* what holds of the code: an indexType string outside the five names is
   rejected, and a missing metricType gives L2 *)
UnknownIndexTypeStringRejected ==
    IndexReturned =>
        /\ (IndexTypeIsString /\ UnknownIndexType) => Rejected
        /\ ("metricType" \notin DOMAIN call.indexParams /\ requests # <<>>) =>
               requests[1].request.index.metricType = "L2"

(* an indexType that is a number: the create-index request for a FLAT index
   went to the store and the call returned success *)
NonStringIndexTypeBuiltFlat ==
    /\ IndexReturned
    /\ UnknownIndexType
    /\ ~IndexTypeIsString
    /\ ret.kind = "ok"
    /\ RequestsOf("CreateIndex") # {}
    /\ requests[1].request.index.type = "FLAT"

(* the string "ANNOY" was rejected *)
UnknownStringRejected ==
    /\ IndexReturned
    /\ IndexTypeIsString
    /\ call.indexParams["indexType"].v = "ANNOY"
    /\ Rejected

(* an HNSW index requested without metricType *)
C16_WitnessDefaultMetric ==
    /\ IndexReturned
    /\ "metricType" \notin DOMAIN call.indexParams
    /\ requests # <<>>
    /\ requests[1].request.index.type = "HNSW"

TaskReturned == pc = "returned" /\ call.op \in {"CreateIndex", "LoadCollection"}

(* C17: CreateIndex and LoadCollection return success only with the task
   issued and its await completed without error; when issuing the task
   fails no await is started and the call returns an error; when the await
   fails, a deadline that elapsed included, the call returns an error.      *)
C17_SuccessOnlyAfterAwait ==
    TaskReturned =>
        /\ ret.kind = "ok" =>
               /\ Len(requests) = 2
               /\ requests[1].op = call.op /\ ~requests[1].reply.err
               /\ requests[2].op = "Await" /\ ~requests[2].reply.err
        /\ (requests # <<>> /\ requests[1].reply.err) =>
               /\ RequestsOf("Await") = {}
               /\ ret.kind = "error"
        /\ \A i \in RequestsOf("Await") : requests[i].reply.err => ret.kind = "error"

(* the deadline elapsed while CreateIndex was awaiting its task *)
C17_Witness ==
    /\ IndexReturned
    /\ Len(requests) = 2
    /\ requests[2].op = "Await"
    /\ requests[2].reply.cause = "context deadline exceeded"
    /\ ret.kind = "error"

-----------------------------------------------------------------------------
(* Properties of CreateCollection and CreateCollectionFromJSON *)

SchemaReturned ==
    pc = "returned" /\ call.op \in {"CreateCollection", "CreateCollectionFromJSON"}

(* the logical types a field descriptor may name *)
LogicalTypes ==
    {"Int8", "Int16", "Int32", "Int64", "Bool", "Float", "Double", "String",
     "VarChar", "JSON", "FloatVector", "BinaryVector", "Float16Vector",
     "BFloat16Vector", "SparseFloatVector"}

BadFieldType(schema) ==
    \E i \in 1..Len(schema.Fields) : schema.Fields[i].DataType \notin LogicalTypes

(* the member names of an object *)
KeysOf(obj) == {obj.members[i].key : i \in 1..Len(obj.members)}

(* no member name is written twice *)
NoRepeat(obj) ==
    \A i, j \in 1..Len(obj.members) : obj.members[i].key = obj.members[j].key => i = j

(* a member is absent or has the JSON type its struct member takes *)
MemberTyped(obj, tag, jsonType) ==
    \A i \in 1..Len(obj.members) :
        obj.members[i].key = Spelling[tag] => Typed(obj.members[i].value, jsonType)

WellFormedFieldJSON(v) ==
    /\ v.t = "object"
    /\ KeysOf(v) \subseteq
           {Spelling[tag] : tag \in {"name", "dataType", "isPrimaryKey", "isAutoID",
                                     "dimension", "description", "maxLength"}}
    /\ NoRepeat(v)
    /\ Spelling.dataType \in KeysOf(v)
    /\ MemberTyped(v, "name", "string") /\ MemberTyped(v, "dataType", "string")
    /\ MemberTyped(v, "isPrimaryKey", "bool") /\ MemberTyped(v, "isAutoID", "bool")
    /\ MemberTyped(v, "dimension", "number") /\ MemberTyped(v, "maxLength", "number")
    /\ MemberTyped(v, "description", "string")
    /\ \A i \in 1..Len(v.members) :
           v.members[i].key = Spelling.dataType => v.members[i].value.str \in LogicalTypes

(* a JSON object of the schema's shape whose fields all name a logical type *)
WellFormedText(text) ==
    /\ text.valid
    /\ text.value.t = "object"
    /\ KeysOf(text.value) \subseteq
           {Spelling[tag] : tag \in {"name", "description", "fields"}}
    /\ NoRepeat(text.value)
    /\ MemberTyped(text.value, "name", "string")
    /\ MemberTyped(text.value, "description", "string")
    /\ MemberTyped(text.value, "fields", "array")
    /\ \A m \in 1..Len(text.value.members) :
           text.value.members[m].key = Spelling.fields =>
               \A i \in 1..Len(text.value.members[m].value.elems) :
                   WellFormedFieldJSON(text.value.members[m].value.elems[i])

WellFormedCall ==
    \/ call.op = "CreateCollection" /\ ~BadFieldType(call.schema)
    \/ call.op = "CreateCollectionFromJSON" /\ WellFormedText(call.schemaJSON)

(* C18: CreateCollection returns an error without a create-collection
   request when a field's dataType is empty or not a logical type;
   CreateCollectionFromJSON returns a parse error without any request when
   the text is not JSON; a well-formed schema, its name or its field list
   possibly empty, results in exactly one create-collection request.        *)
C18_SchemaErrorsBeforeRequest ==
    SchemaReturned =>
        /\ (call.op = "CreateCollection" /\ BadFieldType(call.schema)) =>
               ret.kind = "error" /\ requests = <<>>
        /\ (call.op = "CreateCollectionFromJSON" /\ ~call.schemaJSON.valid) =>
               /\ ret.kind = "error"
               /\ ret.err = "failed to parse schema JSON"
               /\ requests = <<>>
        /\ WellFormedCall =>
               Len(requests) = 1 /\ requests[1].op = "CreateCollection"

(* the text {"fields": []}, without a name, has reached the store *)
C18_Witness ==
    /\ SchemaReturned
    /\ call.op = "CreateCollectionFromJSON"
    /\ call.schemaJSON = JsonText(JObject(<<NoFields>>))
    /\ Len(requests) = 1
    /\ requests[1].request.schema.name = ""
    /\ requests[1].request.schema.fields = <<>>

(* a schema whose second field names no logical type was turned down *)
C18_WitnessRejected ==
    /\ SchemaReturned
    /\ call.op = "CreateCollection"
    /\ Len(call.schema.Fields) = 2
    /\ call.schema.Fields[1].DataType = "Int64"
    /\ call.schema.Fields[2].DataType = "Blob"
    /\ ret.kind = "error"

(* the text of the call that returned from CreateCollectionFromJSON, and the
   fields of the schema it sent *)
TextMembers == call.schemaJSON.value.members

SentFields == requests[1].request.schema.fields

FromJSONSent ==
    /\ SchemaReturned
    /\ call.op = "CreateCollectionFromJSON"
    /\ call.schemaJSON.valid /\ call.schemaJSON.value.t = "object"
    /\ Len(requests) = 1

(* a second field list naming only "b" over a first one with an Int64
   field: the field sent is b, of type Int64 *)
SecondListOverFirst ==
    /\ FromJSONSent
    /\ Len(TextMembers) = 3
    /\ TextMembers[3] = FieldsOf(<<Named("b")>>)
    /\ Len(TextMembers[2].value.elems) = 1
    /\ Len(SentFields) = 1
    /\ SentFields[1].name = "b" /\ SentFields[1].dataType = "Int64"

(* the same over a first list of two fields: one field is sent *)
SecondListTruncates ==
    /\ FromJSONSent
    /\ Len(TextMembers) = 3
    /\ TextMembers[3] = FieldsOf(<<Named("b")>>)
    /\ Len(TextMembers[2].value.elems) = 2
    /\ Len(SentFields) = 1
    /\ SentFields[1].name = "b" /\ SentFields[1].dataType = "Int64"

(* a null element of the second list leaves the element of the first *)
NullElementLeavesField ==
    /\ FromJSONSent
    /\ Len(TextMembers) = 3
    /\ TextMembers[3] = FieldsOf(<<JNull>>)
    /\ Len(SentFields) = 1
    /\ SentFields[1].name = "id" /\ SentFields[1].dataType = "Int64"

(* null after a field list empties it *)
NullEmptiesList ==
    /\ FromJSONSent
    /\ Len(TextMembers) = 3
    /\ TextMembers[2] = FieldsOf(<<IdField(Spelling.dataType)>>)
    /\ TextMembers[3] = Member(Spelling.fields, JNull)
    /\ SentFields = <<>>

(* a third list reaches the element a longer first list left behind *)
StaleElementExposed ==
    /\ FromJSONSent
    /\ Len(TextMembers) = 4
    /\ TextMembers[4] = FieldsOf(<<Named("d"), JObject(<<>>)>>)
    /\ Len(SentFields) = 2
    /\ SentFields[1].name = "d" /\ SentFields[1].dataType = "Int64"
    /\ SentFields[2].name = "text" /\ SentFields[2].dataType = "VarChar"

(* an empty list between two lists: the last one starts from zero fields *)
EmptyListForgets ==
    /\ SchemaReturned
    /\ call.op = "CreateCollectionFromJSON"
    /\ call.schemaJSON.valid /\ call.schemaJSON.value.t = "object"
    /\ Len(TextMembers) = 4
    /\ TextMembers[3] = NoFields
    /\ ret.kind = "error" /\ ret.err = "has empty dataType"
    /\ requests = <<>>

(* the field list under a name written with the long s is taken *)
LongSKeyMatches ==
    /\ FromJSONSent
    /\ Len(TextMembers) = 2
    /\ TextMembers[2].key = WithLongS(Spelling.fields)
    /\ Len(SentFields) = 1

(* isPrimaryKey written with the Kelvin sign is taken *)
KelvinKeyMatches ==
    /\ FromJSONSent
    /\ Len(TextMembers) = 2
    /\ TextMembers[2].value.t = "array"
    /\ Len(TextMembers[2].value.elems) = 1
    /\ TextMembers[2].value.elems[1].t = "object"
    /\ \E i \in 1..Len(TextMembers[2].value.elems[1].members) :
           TextMembers[2].value.elems[1].members[i].key
               = WithKelvin(Spelling.isPrimaryKey)
    /\ SentFields[1].primaryKey

(* a number under description written with the long s is a parse error *)
LongSKeyMistyped ==
    /\ SchemaReturned
    /\ call.op = "CreateCollectionFromJSON"
    /\ call.schemaJSON.valid /\ call.schemaJSON.value.t = "object"
    /\ Len(TextMembers) = 3
    /\ TextMembers[2].key = WithLongS(Spelling.description)
    /\ ret.kind = "error" /\ ret.err = "failed to parse schema JSON"
    /\ requests = <<>>

InvalidDescriptor(field) ==
    \/ field.DataType = "VarChar" /\ field.MaxLength <= 0
    \/ field.DataType \in {"FloatVector", "BinaryVector"} /\ field.Dimension <= 0

(* C19: CreateCollection given a VarChar field without a positive maxLength
   or a FloatVector or BinaryVector field without a positive dimension
   returns an error and sends no schema to the store.                       *)
C19_InvalidDescriptorRejected ==
    (SchemaReturned /\ call.op = "CreateCollection"
        /\ \E i \in 1..Len(call.schema.Fields) : InvalidDescriptor(call.schema.Fields[i]))
    => (ret.kind = "error" /\ requests = <<>>)

-----------------------------------------------------------------------------
(* Properties of the search request *)

(* the names listed by an outputFields value, whichever slice type holds them *)
ListedNames(val) ==
    IF val.go = "[]string" THEN val.v ELSE [i \in 1..Len(val.v) |-> val.v[i].v]

WithoutKey(params, key) == [k \in DOMAIN params \ {key} |-> params[k]]

(* C20: the request Search sends names params.vectorField as the vector
   field when that is a string and "vector" otherwise, asks for
   params.outputFields when present and for "id" alone otherwise, carries
   a filter exactly when params.expr is a string, and is the same with and
   without params.searchParams.                                             *)
C20_SearchParamsResolved ==
    SearchReturned =>
        LET sent   == requests[1].request
            params == call.params
        IN  /\ sent.annsField =
                   (IF "vectorField" \in DOMAIN params /\ params["vectorField"].go = "string"
                    THEN params["vectorField"].v ELSE "vector")
            /\ sent.outputFields =
                   (IF "outputFields" \in DOMAIN params
                    THEN ListedNames(params["outputFields"]) ELSE <<"id">>)
            /\ sent.filter.set =
                   ("expr" \in DOMAIN params /\ params["expr"].go = "string")
            /\ sent.filter.set => sent.filter.expr = params["expr"].v
            /\ sent = searchOption(call.collectionName, call.vectors, call.topK,
                                   WithoutKey(params, "searchParams"))

(* the parts of C20 for calls whose outputFields, if any, is a []string *)
C20_ResolvedForStringSlices ==
    (SearchReturned /\ ("outputFields" \in DOMAIN call.params =>
                            call.params["outputFields"].go = "[]string"))
    => C20_SearchParamsResolved

-----------------------------------------------------------------------------
(* Properties of the requests an invocation makes *)

Returned == pc = "returned"

(* C15: an invocation of Insert, Search, LoadCollection or CreateIndex
   issues at most one store request of its kind; a store request that
   returned an error is the last request of the invocation, and the
   invocation returns an error.                                             *)
C15_NoRetry ==
    Returned =>
        /\ Cardinality(RequestsOf(call.op)) <= 1
        /\ \A i \in DOMAIN requests :
               /\ requests[i].op \in {call.op, "Await"}
               /\ requests[i].reply.err => (i = Len(requests) /\ ret.kind = "error")

(* every operation has met a store error on its one request *)
FailedOnce(op) ==
    /\ Returned
    /\ call.op = op
    /\ Len(requests) = 1
    /\ requests[1].op = op
    /\ requests[1].reply.err
    /\ ret.kind = "error"

C15_Witness == FailedOnce("LoadCollection")

C15_WitnessInsert == FailedOnce("Insert")

C15_WitnessSearch == FailedOnce("Search")

C15_WitnessCreateIndex == FailedOnce("CreateIndex")

-----------------------------------------------------------------------------
(* Properties of ModuleInstance.Client *)

ClientReturned == pc = "returned" /\ call.op = "Client"

(* the address the caller means *)
MeantAddress ==
    IF call.address # "" THEN call.address
    ELSE IF call.env # "" THEN call.env
    ELSE "localhost:19530"

(* the emitMetric calls of the invocation made for a metric *)
SamplesOf(metric) == {i \in DOMAIN Emitted : Emitted[i].metric = metric}

(* C21: Client connects to the given address, to MILVUS_HOST when the
   address is empty and the variable is set, and to "localhost:19530"
   otherwise; outside a VU context it throws without a connection attempt;
   when the connection fails it emits one error sample tagged
   operation="connect", throws and returns no client; the connection gauge
   sample is emitted only after a successful connection; the samples emitted
   under a context that was never done are the ones the sink holds.         *)
C21_ClientConnects ==
    ClientReturned =>
        /\ ~vu.state =>
               ret.kind = "throw" /\ requests = <<>> /\ Emitted = <<>>
        /\ vu.state =>
               /\ Len(requests) = 1
               /\ requests[1].op = "Connect"
               /\ requests[1].request.address = MeantAddress
        /\ (vu.state /\ requests[1].reply.err) =>
               /\ ret.kind = "throw"
               /\ Len(Emitted) = 1
               /\ Emitted[1].metric = "milvus_errors"
               /\ Emitted[1].value = 1
               /\ Emitted[1].tags.operation = "connect"
        /\ (vu.state /\ ~requests[1].reply.err) =>
               ret.kind = "client" /\ ret.address = MeantAddress
        /\ SamplesOf("milvus_connections") # {} =>
               (requests # <<>> /\ ~requests[1].reply.err /\ ret.kind = "client")
        /\ ~vu.done => AllPushed

(* no address given, MILVUS_HOST set, and the connection failed under a live
   context: the sink holds the one error sample *)
C21_Witness ==
    /\ ClientReturned
    /\ vu.state /\ ~vu.done
    /\ call.address = ""
    /\ call.env = "envhost:19530"
    /\ requests[1].request.address = "envhost:19530"
    /\ requests[1].reply.err
    /\ ret.kind = "throw"
    /\ Len(emitted) = 1
    /\ emitted[1].tags.operation = "connect"

(* called in the init context *)
C21_WitnessInitContext ==
    ClientReturned /\ ~vu.state /\ ret.kind = "throw" /\ requests = <<>>

-----------------------------------------------------------------------------
(* Properties of the backward-compatibility wrappers *)

(* what the call that has returned gave back and did *)
Observed == Outcome(ret, requests, Emitted)

(* the store's answer to the i-th request of the call, if it made one *)
AnswerTo(i, none) == IF i <= Len(requests) THEN requests[i].reply ELSE none

(* C22: each wrapper returns and does what the general operation returns
   and does for the fixed arguments, whatever the store answers:
   InsertVectors(c, v) as Insert(c, {"vector": v}); SearchSimple(c, v, k) as
   Search with vectorField "vector" and outputFields ["id"];
   CreateIndexSimple(c, f) as CreateIndex with FLAT and L2;
   CreateCollectionSimple(c, d) as CreateCollection of the schema with an
   auto-id Int64 primary key "id" and a FloatVector "vector" of dimension d. *)
C22_WrappersEquivalent ==
    Returned =>
        /\ call.op = "InsertVectors" =>
               Observed = Insert(call.collectionName,
                                 [vector |-> GoVal("[][]float32", call.vectors)],
                                 <<"vector">>, AnswerTo(1, NoReply))
        /\ call.op = "SearchSimple" =>
               Observed = Search(call.collectionName, call.vectors, call.topK,
                                 [vectorField  |-> GoVal("string", "vector"),
                                  outputFields |-> GoVal("[]string", <<"id">>)],
                                 AnswerTo(1, NotSent))
        /\ call.op = "CreateIndexSimple" =>
               Observed = CreateIndex(call.collectionName, call.fieldName,
                                      [indexType  |-> GoVal("string", "FLAT"),
                                       metricType |-> GoVal("string", "L2")],
                                      AnswerTo(1, NotSent), AnswerTo(2, NoAwait))
        /\ call.op = "CreateCollectionSimple" =>
               Observed = CreateCollection(
                              [Name |-> call.collectionName,
                               Description |-> "Simple collection for k6 testing",
                               Fields |->
                                   <<[Name |-> "id", DataType |-> "Int64",
                                      IsPrimaryKey |-> TRUE, IsAutoID |-> TRUE,
                                      Dimension |-> 0, Description |-> "",
                                      MaxLength |-> 0],
                                     [Name |-> "vector", DataType |-> "FloatVector",
                                      IsPrimaryKey |-> FALSE, IsAutoID |-> FALSE,
                                      Dimension |-> call.dimension,
                                      Description |-> "", MaxLength |-> 0]>>],
                              AnswerTo(1, NotSent))

(* InsertVectors wrote a column named "vector" and returned ids *)
C22_Witness ==
    /\ Returned
    /\ call.op = "InsertVectors"
    /\ Len(call.vectors) = 2
    /\ Len(requests) = 1
    /\ requests[1].columns[1].name = "vector"
    /\ ret.kind = "ok"

C22_WitnessSearchSimple ==
    Returned /\ call.op = "SearchSimple" /\ ret.kind = "ok" /\ Len(ret.results) > 0

C22_WitnessIndexSimple ==
    Returned /\ call.op = "CreateIndexSimple" /\ ret.kind = "ok"

C22_WitnessCollectionSimple ==
    Returned /\ call.op = "CreateCollectionSimple" /\ ret.kind = "ok"

-----------------------------------------------------------------------------
(* Properties of concurrent virtual users *)

Started(v) == pc[v] \in {"running", "returned"}

(* the state a VU owns: its position, its frame, its result, its requests
   and its context *)
LocalsOf(v) == <<pc[v], call[v], ret[v], requests[v], vu[v]>>

(* the tags of the samples of the call of VU v, read off client.go:279-291
   and search.go:53-60 and 99, over the VU's own tags *)
CallTags(v) ==
    LET a      == call[v].args
        status == IF call[v].reply.err THEN "error" ELSE "success"
    IN  IF a.op = "Insert"
        THEN [vu |-> v, operation |-> "insert", collection |-> a.collectionName,
              status |-> status]
        ELSE [vu |-> v, operation |-> "search", collection |-> a.collectionName,
              topk |-> "1", status |-> status]

(* the metric and the value of each emitMetric call of the call of VU v, in
   the order of client.go:286-287 and 292-295, search.go:61-62 and 100-103;
   every call of VUCalls has one vector *)
CallMetrics(v) ==
    IF call[v].reply.err
    THEN <<[metric |-> "milvus_errors", value |-> 1],
           [metric |-> "milvus_req_duration", value |-> call[v].reply.ms]>>
    ELSE <<[metric |-> "milvus_reqs", value |-> 1],
           [metric |-> "milvus_req_duration", value |-> call[v].reply.ms],
           [metric |-> "milvus_vectors", value |-> 1],
           [metric |-> "milvus_errors", value |-> 0]>>

(* the sample the sink gets for the i-th emitMetric call of the call of VU v *)
SampleOfCall(v, i) ==
    [metric |-> CallMetrics(v)[i].metric, value |-> CallMetrics(v)[i].value,
     tags |-> CallTags(v)]

(* the one request of VU v is for its own arguments and holds the store's
   answer to it *)
OwnRequest(v) ==
    LET a == call[v].args IN
    /\ Len(requests[v]) = 1
    /\ requests[v][1].op = a.op
    /\ requests[v][1].reply = call[v].reply
    /\ IF a.op = "Insert"
       THEN /\ requests[v][1].collection = a.collectionName
            /\ Len(requests[v][1].columns) = 1
            /\ requests[v][1].columns[1].name = "vector"
       ELSE /\ requests[v][1].request.collection = a.collectionName
            /\ requests[v][1].request.vectors = a.vectors
            /\ requests[v][1].request.topK = a.topK

(* the result of VU v is the one its own arguments and the store's answer to
   its own request give: the error of its operation, the placeholder id of
   its one row, or the one hit the store answered *)
OwnResult(v) ==
    LET a == call[v].args
        r == call[v].reply
    IN  IF r.err
        THEN /\ ret[v].kind = "error"
             /\ ret[v].err = (IF a.op = "Insert" THEN "failed to insert"
                              ELSE "failed to search")
        ELSE /\ ret[v].kind = "ok"
             /\ IF a.op = "Insert" THEN ret[v].ids = <<0>>
                ELSE /\ Len(ret[v].results) = 1
                     /\ ret[v].results[1].ID = r.sets[1].IDs[1]
                     /\ ret[v].results[1].Score = r.sets[1].Scores[1]

(* two VUs that made the same call and got the same answer have the same
   requests and the same result, whatever else each of them went through *)
SameCallSameOutcome ==
    \A v, w \in VUs :
        (/\ pc[v] = "returned" /\ pc[w] = "returned"
         /\ call[v].args = call[w].args
         /\ call[v].reply = call[w].reply) =>
            (ret[v] = ret[w] /\ requests[v] = requests[w])

(* the current emitMetric call of VU v ends in this step *)
EmitEnds(v) == pc[v] = "running" /\ call'[v].pushed = call[v].pushed + 1

(* the current emitMetric call of VU v found its context live and has its
   sample to send *)
Sending(v) == call[v].sending # <<>>

(* each VU got the requests and the result of its own call, it made every
   emitMetric call of that call before it returned, and the sample it is
   about to send is the one of its current emitMetric call *)
OwnOutcome ==
    /\ \A v \in VUs :
           /\ Started(v) => OwnRequest(v)
           /\ Sending(v) =>
                  /\ pc[v] = "running"
                  /\ call[v].sending = <<SampleOfCall(v, call[v].pushed + 1)>>
           /\ pc[v] = "returned" =>
                  /\ OwnResult(v)
                  /\ call[v].pushed = Len(CallMetrics(v))
    /\ SameCallSameOutcome

(* a step changes the state of one VU at most *)
OneVUStep ==
    \A v, w \in VUs :
        (v # w /\ LocalsOf(v)' # LocalsOf(v)) => LocalsOf(w)' = LocalsOf(w)

(* the sink changes by the sample of an emitMetric call, appended as that
   call ends, or by the consumer taking the oldest sample *)
SinkChange ==
    \/ emitted' = emitted
    \/ /\ emitted # <<>>
       /\ emitted' = Tail(emitted)
       /\ \A v \in VUs : LocalsOf(v)' = LocalsOf(v)
    \/ /\ emitted' # <<>>
       /\ emitted' = Append(emitted, emitted'[Len(emitted')])
       /\ \E v \in VUs : EmitEnds(v)

(* every emitMetric call appends its sample, with the tags of its call, as
   it ends *)
EverySampleStep ==
    /\ OneVUStep
    /\ SinkChange
    /\ \A v \in VUs :
           EmitEnds(v) =>
               emitted' = Append(emitted, SampleOfCall(v, call[v].pushed + 1))

(* an emitMetric call that found its context live appends its sample, with
   the tags of its call, as it ends, and does not end without; a call that
   found its context done appends nothing *)
SinkStep ==
    /\ OneVUStep
    /\ SinkChange
    /\ \A v \in VUs :
           /\ EmitEnds(v) =>
                  emitted' = IF Sending(v)
                             THEN Append(emitted, SampleOfCall(v, call[v].pushed + 1))
                             ELSE emitted
           /\ (Sending(v) /\ ~EmitEnds(v)) =>
                  (pc'[v] = "running" /\ call'[v].sending = call[v].sending)
           /\ (~Sending(v) /\ call'[v].sending # <<>>) => ~vu[v].done
           /\ (~Sending(v) /\ EmitEnds(v)) => vu[v].done

(* C23: under every interleaving of the virtual users, every sample a call
   emits is appended to the sink once, with the tags of that call, and the
   sink changes in no other way than by its consumer taking the oldest
   sample; a step changes the state of one VU only, and the result a VU gets
   is the one its own arguments and the store's answer to its own request
   give.                                                                    *)
C23_EverySampleAppended == []OwnOutcome /\ [][EverySampleStep]_vars

(* C23, amended: as above, for the samples of the emitMetric calls that
   found the context of their VU live; an emitMetric call made after the
   context of its VU is done appends nothing.                               *)
C23_OnlySinkShared == []OwnOutcome /\ [][SinkStep]_vars

(* the context of VU 1 ended before its call emitted anything: the call has
   made an emitMetric call that sent nothing, and the sink is still empty    *)
SampleDropped ==
    /\ pc[1] = "running" /\ vu[1].done
    /\ call[1].pushed = 1 /\ call[1].sending = <<>>
    /\ pc[2] = "idle"
    /\ emitted = <<>>

(* the context of a VU ended after its emitMetric call found it live: the
   VU still holds its sample and waits at the full channel *)
WaitingWhileDone ==
    /\ pc[1] = "running" /\ vu[1].done
    /\ call[1].sending # <<>>
    /\ Len(emitted) = ChannelCap
    /\ \A i \in 1..Len(emitted) : emitted[i].tags.vu = 2

(* both VUs are in the middle of their pushes, an Insert and a Search on the
   same collection, and the sink holds a sample of each *)
C23_Witness ==
    /\ pc[1] = "running" /\ pc[2] = "running"
    /\ call[1].args.op = "Insert" /\ call[2].args.op = "Search"
    /\ call[1].args.collectionName = call[2].args.collectionName
    /\ ~vu[1].done /\ ~vu[2].done
    /\ Len(emitted) = 2
    /\ emitted[1].tags.vu = 2 /\ emitted[1].tags.operation = "search"
    /\ emitted[2].tags.vu = 1 /\ emitted[2].tags.operation = "insert"

(* both VUs have returned with success, each with its four samples emitted *)
C23_WitnessInterleaved ==
    /\ pc[1] = "returned" /\ pc[2] = "returned"
    /\ ret[1].kind = "ok" /\ ret[2].kind = "ok"
    /\ call[1].pushed = 4 /\ call[2].pushed = 4
    /\ call[1].args.op # call[2].args.op

-----------------------------------------------------------------------------
(* Properties of the samples of an invocation that reached the store *)

StoreReached ==
    /\ Returned
    /\ call.op \in {"Insert", "Search"}
    /\ requests # <<>>

OperationTag == IF call.op = "Insert" THEN "insert" ELSE "search"

(* rows of an Insert: the longest column; vectors of a Search: the queries *)
CountedItems ==
    IF call.op = "Insert"
    THEN SetMax({Len(requests[1].columns[i].data) : i \in DOMAIN requests[1].columns})
    ELSE Len(call.vectors)

(* the samples of the call that reached the store: one duration and one
   error-rate sample, every sample tagged with the operation, the collection
   and the status of the store request, the two counting samples on store
   success only; the samples emitted under a context that was never done are
   the ones the sink holds, and the sink holds no other sample              *)
StoreCallSamples ==
    LET ok == ~requests[1].reply.err IN
    /\ Cardinality(SamplesOf("milvus_req_duration")) = 1
    /\ Cardinality(SamplesOf("milvus_errors")) = 1
    /\ \A i \in DOMAIN Emitted :
           /\ Emitted[i].tags.operation = OperationTag
           /\ Emitted[i].tags.collection = call.collectionName
           /\ Emitted[i].tags.status = (IF ok THEN "success" ELSE "error")
    /\ ok => /\ Cardinality(SamplesOf("milvus_reqs")) = 1
             /\ \A i \in SamplesOf("milvus_reqs") : Emitted[i].value = 1
             /\ Cardinality(SamplesOf("milvus_vectors")) = 1
             /\ \A i \in SamplesOf("milvus_vectors") : Emitted[i].value = CountedItems
    /\ ~ok => SamplesOf("milvus_reqs") = {} /\ SamplesOf("milvus_vectors") = {}
    /\ ~vu.done => AllPushed
    /\ Range(emitted) \subseteq {Kept(e) : e \in Samples}

(* C24: an Insert or Search that reached the store has emitted exactly one
   duration sample and one error-rate sample; all its samples carry the
   same operation ("insert" or "search"), the collection and one status,
   which is "success" exactly when the store request returned no error; on
   store success there is also exactly one request-count sample of value 1
   and one count sample (the maximum column length for Insert, the number
   of query vectors for Search), and on store error neither.                *)
C24_SamplesOfStoreCalls == StoreReached => StoreCallSamples

(* the same for the calls that returned to the script: a Search that
   panicked on an id column it cannot read is left out *)
SamplesOfReturnedStoreCalls ==
    (StoreReached /\ ret.kind # "panic") => StoreCallSamples

(* a Search was answered with ids that are not int64: it panicked after the
   store call and before its first sample *)
SearchPanickedUnsampled ==
    /\ StoreReached
    /\ call.op = "Search"
    /\ ~requests[1].reply.err
    /\ ret.kind = "panic"
    /\ Emitted = <<>>

(* an Insert of two columns of different lengths was refused by the store;
   the context was live and the sink holds the two samples *)
RefusedInsertSampled ==
    /\ StoreReached
    /\ call.op = "Insert"
    /\ Len(requests[1].columns) = 2
    /\ requests[1].reply.err
    /\ ~vu.done
    /\ Len(emitted) = 2
    /\ emitted[1].tags.status = "error"

(* a Search of two query vectors succeeded *)
SearchSampled ==
    /\ StoreReached
    /\ call.op = "Search"
    /\ Len(call.vectors) = 2
    /\ ~requests[1].reply.err
    /\ ~vu.done
    /\ Len(emitted) = 4

(* the iteration was interrupted between two samples of a successful Insert:
   the later samples were emitted and dropped by the sink *)
InterruptedInsertSampled ==
    /\ StoreReached
    /\ call.op = "Insert"
    /\ ~requests[1].reply.err
    /\ vu.done
    /\ Len(Emitted) = 4
    /\ Len(emitted) = 2

-----------------------------------------------------------------------------
(* Properties of calculateRecall: ground truth as a set, bounds of reads *)

(* a list without its repeated entries, first occurrences kept *)
RECURSIVE Distinct(_, _, _)
Distinct(list, i, kept) ==
    IF i > Len(list) THEN kept
    ELSE Distinct(list, i + 1,
                  IF list[i] \in Range(kept) THEN kept ELSE Append(kept, list[i]))

DistinctTruth(groundTruth) ==
    [q \in 1..Len(groundTruth) |-> Distinct(groundTruth[q], 1, <<>>)]

(* C25: the value calculateRecall returns is the one it returns for the
   ground truth with every repeated id of a query removed: the relevant
   ids of a query count as a set.                                           *)
C25_GroundTruthIsSet ==
    RecallReturned =>
        ret.value = calculateRecall(call.results, DistinctTruth(call.groundTruth),
                                    call.topK, call.numQueries)

-----------------------------------------------------------------------------
(* Properties of the ids of decoded hits *)

(* some rank of some result set has no id to read *)
IdMissing == \E q \in 1..Len(RawSets) : Len(RawSets[q].IDs) < RawSets[q].ResultCount

StoreIds == UNION {Range(RawSets[q].IDs) : q \in 1..Len(RawSets)}

(* some result set with hits has an id column whose ids are not int64 *)
IdOfOtherType ==
    \E q \in 1..Len(RawSets) :
        RawSets[q].ResultCount > 0 /\ Len(RawSets[q].IDs) > 0
            /\ RawSets[q].idType # "Int64"

(* C26: when the id of a hit cannot be read from the store's result, Search
   returns an error; no hit it returns carries an id that the store's
   result does not hold.                                                    *)
C26_NoFabricatedId ==
    (SearchReturned /\ ~requests[1].reply.err) =>
        /\ (IdMissing \/ IdOfOtherType) => ret.kind = "error"
        /\ ret.kind = "ok" =>
               \A j \in 1..Len(ret.results) : ret.results[j].ID \in StoreIds

(* a hit without an id was returned with id 0 *)
FabricatedIdReturned ==
    /\ SearchSucceeded
    /\ IdMissing
    /\ \E j \in 1..Len(ret.results) : ret.results[j].ID \notin StoreIds

(* ids of another type ended the Search with a panic *)
OtherIdTypePanicked == SearchReturned /\ IdOfOtherType /\ ret.kind = "panic"

-----------------------------------------------------------------------------
(* Properties of Insert: precision by field name, abnormal ends, field order *)

(* the fields of the batch that are loosely-typed sequences of numbers *)
LooseNumberFields ==
    {f \in DOMAIN call.data :
        /\ call.data[f].go = "[]interface{}"
        /\ Len(call.data[f].v) > 0
        /\ \A i \in 1..Len(call.data[f].v) : call.data[f].v[i].go = "float64"}

ColumnsNamed(f) == {i \in DOMAIN requests[1].columns : requests[1].columns[i].name = f}

(* C27: for a loosely-typed sequence of numbers the column written is of
   double precision exactly when the field is named "rating" and of single
   precision for every other name, whatever the values.                     *)
C27_PrecisionByFieldName ==
    (InsertReturned /\ WriteIssued) =>
        \A f \in LooseNumberFields :
            /\ ColumnsNamed(f) # {}
            /\ \A i \in ColumnsNamed(f) :
                   requests[1].columns[i].type =
                       (IF f = "rating" THEN "Double" ELSE "Float")

(* the same numbers, one of which single precision cannot hold, written
   under both names: double for "rating", single for the other             *)
C27_Witness ==
    /\ InsertReturned /\ WriteIssued
    /\ LooseNumberFields = {"rating", "vector"}
    /\ call.data["rating"] = call.data["vector"]
    /\ \E i \in 1..Len(call.data["rating"].v) : call.data["rating"].v[i].v = 16777217
    /\ \A i \in ColumnsNamed("rating") : requests[1].columns[i].type = "Double"
    /\ \A i \in ColumnsNamed("vector") : requests[1].columns[i].type = "Float"

(* a loosely-typed sequence whose first element has a known shape and some
   later element, or a component of a vector, another                       *)
MixedShape(val) ==
    /\ val.go = "[]interface{}"
    /\ Len(val.v) > 0
    /\ val.v[1].go \in {"string", "float64", "bool", "[]interface{}"}
    /\ \/ \E i \in 1..Len(val.v) : val.v[i].go # val.v[1].go
       \/ /\ \A i \in 1..Len(val.v) : val.v[i].go = "[]interface{}"
          /\ \E i \in 1..Len(val.v) : \E j \in 1..Len(val.v[i].v) :
                 val.v[i].v[j].go # "float64"

(* C28: Insert ends by returning ids or an error; for a batch with a
   loosely-typed sequence of mixed shape it returns an error.               *)
C28_InsertReturnsNormally ==
    InsertReturned =>
        /\ ret.kind \in {"ok", "error"}
        /\ (\E f \in DOMAIN call.data : MixedShape(call.data[f])) => ret.kind = "error"

(* the store's answer to the write of the observed call, if it wrote *)
ReplyGiven == IF WriteIssued THEN requests[1].reply ELSE NoReply

(* the columns of the write of an outcome, as a set *)
ColumnsWritten(reqs) == IF Len(reqs) = 0 THEN {} ELSE Range(reqs[1].columns)

(* what the caller can tell of an outcome: how the call ended, and the ids *)
EndOf(r) == IF r.kind = "ok" THEN [kind |-> "ok", ids |-> r.ids]
            ELSE [kind |-> r.kind, ids |-> <<>>]

(* the observed outcome against the outcome of another visiting order, for
   the same batch record and the same answer of the store *)
SameUnderOrder(order) ==
    LET other == Insert(call.collectionName, call.data, order, ReplyGiven) IN
    /\ Len(other.requests) = Len(requests)
    /\ ColumnsWritten(other.requests) = ColumnsWritten(requests)
    /\ EndOf(other.ret) = EndOf(ret)

(* C30: for the same batch record and store answer every visiting order of
   the fields yields the same set of columns, the same success/error outcome
   and the same ids, and if any field is unsupported no write is issued
   whatever the order. *)
C30_OrderIndependent ==
    InsertReturned =>
        /\ \A order \in Orders(DOMAIN call.data) : SameUnderOrder(order)
        /\ (\E f \in DOMAIN call.data : Unsupported(call.data[f])) => requests = <<>>

(* the same, for the calls that end by returning *)
OrderIndependentWhenReturning ==
    (InsertReturned /\ \A order \in Orders(DOMAIN call.data) :
         Insert(call.collectionName, call.data, order, ReplyGiven).ret.kind # "panic")
    => /\ \A order \in Orders(DOMAIN call.data) : SameUnderOrder(order)
       /\ (\E f \in DOMAIN call.data : Unsupported(call.data[f])) => requests = <<>>

-----------------------------------------------------------------------------
(* Properties of calculateRecall for a topK of any magnitude, checked under
   RecallWideSpec *)

(* C29: for every input (any k, any numQueries, hits shorter than
   numQueries*k) calculateRecall ends with a value, reads no position outside
   hits and no index outside groundTruth, evaluates only the first
   min(numQueries, len(groundTruth)) queries, and a chunk that runs past the
   end of hits is cut to the hits that exist. *)
C29_RecallStaysInBounds ==
    RecallReturned =>
        /\ ret.kind = "value"
        /\ Len(ret.perQuery) =
               IF earlyReturn(call.results, call.groundTruth, call.numQueries)
               THEN 0 ELSE Evaluated(call)
        /\ \A i \in 1..Len(ret.perQuery) :
               ret.perQuery[i].read \subseteq 0..(Len(call.results) - 1)

=============================================================================
